---- MODULE Spec2Model ----
(***************************************************************************)
(* Revenue forecasting and KPI pipeline: src/src/forecasting_engine.py,    *)
(* src/src/kpi_calculator.py and src/config/settings.py.                    *)
(*                                                                         *)
(* Numbers are exact rationals <<num, den>> (den > 0, lowest terms) in     *)
(* place of float64.  The three IEEE specials are kept: <<1, 0>> is +inf,  *)
(* <<-1, 0>> is -inf and <<0, 0>> is NaN, so an unguarded division by zero *)
(* yields what numpy yields and not an error.                              *)
(***************************************************************************)
EXTENDS Integers, Sequences, FiniteSets, TLC

VARIABLES
    pc,                \* position in the running pipeline
    files,             \* names of the files present in data/processed and reports
    processed_revenue, \* rows of data/processed/processed_revenue.csv
    df,                \* the table load_processed_data returned
    df_features,       \* the table prepare_features returned
    linear_results,    \* result of linear_trend_forecast
    seasonal_results,  \* result of seasonal_decomposition_forecast
    forecasts_df,      \* result of create_forecast_summary
    processed_kpi,     \* rows of data/processed/processed_kpi.csv
    revenue_df,        \* the revenue table KPICalculator.load_data returned
    kpi_df,            \* the KPI series KPICalculator.load_data returned
    monthly_kpis,      \* result of calculate_revenue_kpis
    unit_kpis,         \* result of calculate_business_unit_kpis
    advanced_kpis,     \* result of calculate_advanced_kpis
    alerts,            \* result of identify_performance_alerts
    error,             \* the exception the pipeline raised, or "none"
    raw_revenue,       \* rows of data/raw/revenue_data.csv
    raw_kpi,           \* rows of data/raw/kpi_data.csv
    dp_revenue_df,     \* the table DataProcessor.load_revenue_data returned
    dp_kpi_df,         \* the table DataProcessor.load_kpi_data returned
    dp_processed,      \* result of calculate_derived_metrics
    aggregated_data,   \* result of aggregate_data
    forecast,          \* the forecast array given to generate_confidence_intervals
    historical_errors, \* the residual array given to generate_confidence_intervals
    intervals,         \* result of generate_confidence_intervals
    revenue_forecasts_csv,  \* rows of data/processed/revenue_forecasts.csv
    performance_alerts_csv, \* rows of data/processed/performance_alerts.csv
    report_data,       \* the dict ReportGenerator.load_processed_data returned
    summary,           \* result of create_executive_summary
    stage,             \* the step run_full_pipeline has reached
    success,           \* what run_full_pipeline returned, or "none"
    skip_data_generation  \* the argument of run_full_pipeline

\* the state of a forecasting run and of a KPI run
fvars == <<df, df_features, linear_results, seasonal_results, forecasts_df>>

kvars == <<revenue_df, kpi_df, monthly_kpis, unit_kpis, advanced_kpis, alerts>>

\* the raw files and the state of a data-processing run
dvars == <<raw_revenue, raw_kpi, dp_revenue_df, dp_kpi_df, dp_processed, aggregated_data>>

\* a call of generate_confidence_intervals
cvars == <<forecast, historical_errors, intervals>>

\* the two files written with DataFrame.to_csv that may hold no row, and the
\* state of a report run
rvars == <<revenue_forecasts_csv, performance_alerts_csv, report_data, summary>>

\* the state of run_full_pipeline
ovars == <<stage, success, skip_data_generation>>

xvars == <<cvars, rvars, ovars>>

vars == <<pc, files, processed_revenue, processed_kpi, fvars, kvars, dvars, xvars, error>>

(***************************************************************************)
(* Settings (src/config/settings.py)                                       *)
(***************************************************************************)
FORECAST_HORIZON_MONTHS == 12
MIN_HISTORICAL_PERIODS == 24

(***************************************************************************)
(* Bounds of the input tables                                              *)
(***************************************************************************)
\* the longest series has MIN_HISTORICAL_PERIODS + MaxExtra rows
MaxExtra == 1
\* the first historical month is one of January 2021 .. + MaxStartOffset
MaxStartOffset == 1
\* revenue levels used by the input series are 0 .. MaxLevel
MaxLevel == 2
\* the largest monthly revenue of a unit in the tables of the KPI runs
MaxKpiRevenue == 10
\* the largest number of rows of a raw revenue file
MaxRawRows == 3

Units == <<"A", "B">>

(***************************************************************************)
(* float64 arithmetic, exact on the finite values                          *)
(***************************************************************************)
Abs(a) == IF a < 0 THEN -a ELSE a

Sign(a) == IF a < 0 THEN -1 ELSE IF a > 0 THEN 1 ELSE 0

RECURSIVE Gcd(_, _)
Gcd(a, b) == IF b = 0 THEN a ELSE Gcd(b, a % b)

NaN == <<0, 0>>
Inf == <<1, 0>>
Zero == <<0, 1>>

Q(a) == <<a, 1>>

IsNaN(x) == x[2] = 0 /\ x[1] = 0
IsFinite(x) == x[2] # 0

\* lowest terms, positive denominator; a zero denominator keeps only the sign
Norm(a, b) ==
    IF b = 0 THEN <<Sign(a), 0>>
    ELSE LET g == Gcd(Abs(a), Abs(b))
             s == IF b < 0 THEN -1 ELSE 1
         IN  <<s * (a \div g), s * (b \div g)>>

QAdd(x, y) ==
    IF IsNaN(x) \/ IsNaN(y) THEN NaN
    ELSE IF ~IsFinite(x) /\ ~IsFinite(y) THEN (IF x[1] = y[1] THEN x ELSE NaN)
    ELSE IF ~IsFinite(x) THEN x
    ELSE IF ~IsFinite(y) THEN y
    ELSE LET g == Gcd(x[2], y[2])
         IN  Norm(x[1] * (y[2] \div g) + y[1] * (x[2] \div g), (x[2] \div g) * y[2])

QNeg(x) == <<-x[1], x[2]>>

QSub(x, y) == QAdd(x, QNeg(y))

QMul(x, y) ==
    IF IsNaN(x) \/ IsNaN(y) THEN NaN
    ELSE IF ~IsFinite(x) \/ ~IsFinite(y) THEN <<Sign(x[1]) * Sign(y[1]), 0>>
    ELSE LET g1 == Gcd(Abs(x[1]), y[2])
             g2 == Gcd(Abs(y[1]), x[2])
         IN  Norm((x[1] \div g1) * (y[1] \div g2), (x[2] \div g2) * (y[2] \div g1))

\* x / y as numpy divides float64: x/0 is +-inf, 0/0 is NaN, no exception
QDiv(x, y) ==
    IF IsNaN(x) \/ IsNaN(y) THEN NaN
    ELSE IF ~IsFinite(y) THEN (IF IsFinite(x) THEN Zero ELSE NaN)
    ELSE IF y[1] = 0 THEN <<Sign(x[1]), 0>>
    ELSE IF ~IsFinite(x) THEN <<Sign(x[1]) * Sign(y[1]), 0>>
    ELSE QMul(x, Norm(y[2], y[1]))

\* x < y as float64 compares: every comparison with NaN is False
QLt(x, y) ==
    IF IsNaN(x) \/ IsNaN(y) THEN FALSE
    ELSE IF ~IsFinite(x) /\ ~IsFinite(y) THEN x[1] < y[1]
    ELSE IF ~IsFinite(x) THEN x[1] < 0
    ELSE IF ~IsFinite(y) THEN y[1] > 0
    ELSE x[1] * y[2] < y[1] * x[2]

QGt(x, y) == QLt(y, x)

\* a computed column, held as an array of its values
AsArray(s) == s \o <<>>

RECURSIVE QSum(_)
\* the sum of a column, added up by halves (exact sums do not depend on the order)
QSum(s) ==
    IF s = <<>> THEN Zero
    ELSE IF Len(s) = 1 THEN s[1]
    ELSE QAdd(QSum(SubSeq(s, 1, Len(s) \div 2)),
              QSum(SubSeq(s, Len(s) \div 2 + 1, Len(s))))

RECURSIVE ISum(_)
ISum(s) ==
    IF s = <<>> THEN 0
    ELSE IF Len(s) = 1 THEN s[1]
    ELSE ISum(SubSeq(s, 1, Len(s) \div 2)) + ISum(SubSeq(s, Len(s) \div 2 + 1, Len(s)))

\* the mean of an empty or NaN-carrying column is NaN
QMean(s) == QDiv(QSum(s), Q(Len(s)))

(***************************************************************************)
(* Dates: [m |-> months since January 2021, d |-> day of the month]        *)
(***************************************************************************)
YearOf(date) == 2021 + (date.m \div 12)

MonthOf(date) == (date.m % 12) + 1

IsLeap(y) == (y % 4 = 0 /\ y % 100 # 0) \/ y % 400 = 0

DaysInMonth(m) ==
    LET mo == (m % 12) + 1
    IN  IF mo = 2 THEN (IF IsLeap(2021 + (m \div 12)) THEN 29 ELSE 28)
        ELSE IF mo \in {4, 6, 9, 11} THEN 30 ELSE 31

DateLe(a, b) == a.m < b.m \/ (a.m = b.m /\ a.d <= b.d)

MonthStart(m) == [m |-> m, d |-> 1]

MonthEnd(m) == [m |-> m, d |-> DaysInMonth(m)]

\* start + pd.DateOffset(months=1): same day of the next month, clamped to its length
AddOneMonth(date) ==
    [m |-> date.m + 1,
     d |-> IF date.d <= DaysInMonth(date.m + 1) THEN date.d ELSE DaysInMonth(date.m + 1)]

\* pd.date_range(start, periods, freq='MS'): the first month start on or after
\* start, then consecutive month starts
DateRangeMS(start, periods) ==
    LET first == IF start.d = 1 THEN start.m ELSE start.m + 1
    IN  AsArray([k \in 1..periods |-> MonthStart(first + k - 1)])

(***************************************************************************)
(* Table helpers (pandas)                                                  *)
(***************************************************************************)
UnitIdx(u) == CHOOSE i \in 1..Len(Units) : Units[i] = u

\* df[df['business_unit'] == unit]: the unit's rows in table order
SelectRows(rows, unit) == SelectSeq(rows, LAMBDA r : r.business_unit = unit)

RECURSIVE UniqueFrom(_, _)
UniqueFrom(rows, seen) ==
    IF rows = <<>> THEN <<>>
    ELSE IF Head(rows).business_unit \in seen THEN UniqueFrom(Tail(rows), seen)
    ELSE <<Head(rows).business_unit>>
         \o UniqueFrom(Tail(rows), seen \cup {Head(rows).business_unit})

\* df['business_unit'].unique(): the units in order of first appearance
Unique(rows) == UniqueFrom(rows, {})

\* the sort key of sort_values(['business_unit', 'date'])
RowLe(a, b) ==
    \/ UnitIdx(a.business_unit) < UnitIdx(b.business_unit)
    \/ a.business_unit = b.business_unit /\ DateLe(a.date, b.date)

\* the number of rows that the sort puts before row i: the earlier rows that do
\* not come after it and the later rows that come before it
Rank(rows, i) ==
    Cardinality({j \in 1..Len(rows) :
        IF j < i THEN RowLe(rows[j], rows[i]) ELSE ~RowLe(rows[i], rows[j])})

\* a stable sort by (business_unit, date)
SortValues(rows) ==
    LET rank == AsArray([i \in 1..Len(rows) |-> Rank(rows, i)])
    IN  AsArray([p \in 1..Len(rows) |->
            rows[CHOOSE i \in 1..Len(rows) : rank[i] = p - 1]])

Column(rows, f) == AsArray([i \in 1..Len(rows) |-> rows[i][f]])

MaxDate(rows) ==
    rows[CHOOSE i \in 1..Len(rows) :
             \A j \in 1..Len(rows) : DateLe(rows[j].date, rows[i].date)].date

\* pd.DataFrame(records).to_csv(path, index=False): the header names the keys of
\* the records; a frame built from no record has no column and its file no header
ToCsv(records) ==
    [columns |-> IF records = <<>> THEN {} ELSE DOMAIN records[1], rows |-> records]

(***************************************************************************)
(* sklearn.linear_model.LinearRegression on one feature                    *)
(***************************************************************************)
\* fit(X, y): ordinary least squares of y on x with an intercept
LinearRegressionFit(X, y) ==
    LET n   == Len(X)
        Sx  == ISum(X)
        Sxx == ISum(AsArray([i \in 1..n |-> X[i] * X[i]]))
        Sy  == QSum(y)
        Sxy == QSum(AsArray([i \in 1..n |-> QMul(Q(X[i]), y[i])]))
        D   == n * Sxx - Sx * Sx
        coef == IF D = 0 THEN Zero
                ELSE QDiv(QSub(QMul(Q(n), Sxy), QMul(Q(Sx), Sy)), Q(D))
    IN  [coef |-> coef, intercept |-> QDiv(QSub(Sy, QMul(coef, Q(Sx))), Q(n))]

\* predict(X) for one x
Predict(model, x) == QAdd(model.intercept, QMul(model.coef, Q(x)))

\* fit() validates its input and raises ValueError on NaN or infinity in y
FitRaises(y) == \E i \in 1..Len(y) : ~IsFinite(y[i])

(***************************************************************************)
(* RevenueForecaster.prepare_features                                      *)
(***************************************************************************)
\* groupby('business_unit')['revenue'].shift(periods) at row i of a table sorted
\* by (business_unit, date), where the rows of a unit are adjacent: the revenue
\* `periods` rows up when that row is of the same unit, and missing otherwise
GroupShift(sorted, i, periods) ==
    IF i - periods >= 1 /\ sorted[i - periods].business_unit = sorted[i].business_unit
    THEN Q(sorted[i - periods].revenue)
    ELSE NaN

\* ffill().bfill() of one column of the frame: a missing cell takes the nearest
\* value above it, and the nearest value below it when there is none above
FfillBfill(col) ==
    LET n == Len(col)
        ffill[i \in 1..n] ==
            IF ~IsNaN(col[i]) \/ i = 1 THEN col[i] ELSE ffill[i - 1]
        bfill[i \in 1..n] ==
            IF ~IsNaN(ffill[n + 1 - i]) \/ i = 1 THEN ffill[n + 1 - i] ELSE bfill[i - 1]
    IN  AsArray([i \in 1..n |-> bfill[n + 1 - i]])

\* the calendar column, the sort by (business_unit, date), the lag columns and
\* the fill of the frame; the columns left out are read by neither forecaster
\* and hold no missing value
PrepareFeatures(rows) ==
    LET sorted == SortValues(rows)
        n == Len(sorted)
        lag1 == FfillBfill(AsArray([i \in 1..n |-> GroupShift(sorted, i, 1)]))
        lag3 == FfillBfill(AsArray([i \in 1..n |-> GroupShift(sorted, i, 3)]))
        lag12 == FfillBfill(AsArray([i \in 1..n |-> GroupShift(sorted, i, 12)]))
    IN  AsArray([i \in 1..n |->
            [date |-> sorted[i].date, business_unit |-> sorted[i].business_unit,
             revenue |-> sorted[i].revenue, month |-> MonthOf(sorted[i].date),
             revenue_lag1 |-> lag1[i], revenue_lag3 |-> lag3[i],
             revenue_lag12 |-> lag12[i]]])

(***************************************************************************)
(* RevenueForecaster.linear_trend_forecast                                 *)
(***************************************************************************)
\* a gate that lets a series one row short of the threshold through
SkippedBelowOneLess(unit_data) == Len(unit_data) < MIN_HISTORICAL_PERIODS - 1

\* if len(unit_data) < MIN_HISTORICAL_PERIODS: continue
Skipped(unit_data) == Len(unit_data) < MIN_HISTORICAL_PERIODS

\* a cut in the middle of the series
SplitPointHalf(n) == n \div 2

\* split_point = int(len(X) * 0.8)
SplitPoint(n) == (n * 8) \div 10

\* last_index = len(unit_data); future_X = [[last_index + i] for i in range(1, 13)]
LinearFutureX(unit_data) ==
    LET last_index == Len(unit_data)
    IN  AsArray([i \in 1..FORECAST_HORIZON_MONTHS |-> last_index + i])

\* pd.date_range(start=last_date + pd.DateOffset(months=1), periods=12, freq='MS')
FutureDates(unit_data) ==
    DateRangeMS(AddOneMonth(MaxDate(unit_data)), FORECAST_HORIZON_MONTHS)

\* the body of the loop for one unit that is not skipped; X_train, X_test and
\* future_X are the loop's locals, kept with the result; the metrics (mae, mse, r2 of the
\* prediction on X_test) are only logged and are left out
LinearUnit(unit, unit_data) ==
    LET n == Len(unit_data)
        X == AsArray([i \in 1..n |-> i - 1])
        y == AsArray([i \in 1..n |-> Q(unit_data[i].revenue)])
        split_point == SplitPoint(n)
        X_train == SubSeq(X, 1, split_point)
        X_test  == SubSeq(X, split_point + 1, n)
        y_train == SubSeq(y, 1, split_point)
        model == LinearRegressionFit(X_train, y_train)
        future_X == LinearFutureX(unit_data)
    IN  [unit |-> unit,
         model |-> model,
         X_train |-> X_train,
         X_test |-> X_test,
         future_X |-> future_X,
         forecast |-> AsArray([k \in 1..Len(future_X) |-> Predict(model, future_X[k])]),
         forecast_dates |-> FutureDates(unit_data),
         historical_fit |-> AsArray([i \in 1..n |-> Predict(model, X[i])])]

RECURSIVE LinearLoop(_, _)
LinearLoop(units, rows) ==
    IF units = <<>> THEN <<>>
    ELSE LET unit_data == SelectRows(rows, Head(units))
         IN  (IF Skipped(unit_data) THEN <<>> ELSE <<LinearUnit(Head(units), unit_data)>>)
             \o LinearLoop(Tail(units), rows)

\* results, a dict in insertion order: one entry per unit that was not skipped
LinearTrendForecast(rows) == LinearLoop(Unique(rows), rows)

(***************************************************************************)
(* RevenueForecaster.seasonal_decomposition_forecast                       *)
(***************************************************************************)
MonthsOf(unit_data) == {unit_data[i].month : i \in 1..Len(unit_data)}

RECURSIVE RevenueOfMonth(_, _)
RevenueOfMonth(unit_data, mo) ==
    IF unit_data = <<>> THEN <<>>
    ELSE (IF Head(unit_data).month = mo THEN <<Q(Head(unit_data).revenue)>> ELSE <<>>)
         \o RevenueOfMonth(Tail(unit_data), mo)

\* seasonal_factors = monthly_avg / overall_avg, keyed by the observed months
SeasonalFactors(unit_data) ==
    LET overall_avg == QMean(AsArray([i \in 1..Len(unit_data) |-> Q(unit_data[i].revenue)]))
    IN  [mo \in MonthsOf(unit_data) |->
            QDiv(QMean(RevenueOfMonth(unit_data, mo)), overall_avg)] @@ <<>>

\* unit_data['revenue'] / unit_data['seasonal_factor']
Deseasonalized(unit_data) ==
    LET seasonal_factors == SeasonalFactors(unit_data)
    IN  AsArray([i \in 1..Len(unit_data) |->
            QDiv(Q(unit_data[i].revenue), seasonal_factors[unit_data[i].month])])

\* future_X = range(len(unit_data), len(unit_data) + future_periods)
SeasonalFutureX(unit_data) ==
    AsArray([i \in 1..FORECAST_HORIZON_MONTHS |-> Len(unit_data) + i - 1])

\* a lookup that gives 0 for a month without a factor
FactorGetOrZero(seasonal_factors, mo) ==
    IF mo \in DOMAIN seasonal_factors THEN seasonal_factors[mo] ELSE Zero

\* seasonal_factors.get(month, 1.0)
FactorGet(seasonal_factors, mo) ==
    IF mo \in DOMAIN seasonal_factors THEN seasonal_factors[mo] ELSE Q(1)

\* the body of the loop for one unit that is not skipped and whose fit succeeds;
\* future_X is the loop's local, kept with the result
SeasonalUnit(unit, rows) ==
    LET unit_data == SortValues(rows)
        n == Len(unit_data)
        seasonal_factors == SeasonalFactors(unit_data)
        X == AsArray([i \in 1..n |-> i - 1])
        model == LinearRegressionFit(X, Deseasonalized(unit_data))
        future_X == SeasonalFutureX(unit_data)
        future_dates == FutureDates(unit_data)
    IN  [unit |-> unit,
         model |-> model,
         seasonal_factors |-> seasonal_factors,
         future_X |-> future_X,
         forecast |-> AsArray([k \in 1..Len(future_X) |->
                          QMul(Predict(model, future_X[k]),
                               FactorGet(seasonal_factors, MonthOf(future_dates[k])))]),
         forecast_dates |-> future_dates]

RECURSIVE SeasonalLoop(_, _)
SeasonalLoop(units, rows) ==
    IF units = <<>> THEN <<>>
    ELSE LET unit_data == SelectRows(rows, Head(units))
         IN  (IF Skipped(unit_data) THEN <<>> ELSE <<SeasonalUnit(Head(units), unit_data)>>)
             \o SeasonalLoop(Tail(units), rows)

\* a forecaster that stops after the first unit of the table
SeasonalDecompositionForecastFirstUnit(rows) ==
    SeasonalLoop(SubSeq(Unique(rows), 1, 1), rows)

SeasonalDecompositionForecast(rows) == SeasonalLoop(Unique(rows), rows)

\* model.fit raises for the first unit whose deseasonalized series is not finite
SeasonalRaises(rows) ==
    \E i \in 1..Len(Unique(rows)) :
        LET unit_data == SelectRows(rows, Unique(rows)[i])
        IN  ~Skipped(unit_data) /\ FitRaises(Deseasonalized(SortValues(unit_data)))

(***************************************************************************)
(* RevenueForecaster.create_forecast_summary                               *)
(***************************************************************************)
Keys(results) == {results[i].unit : i \in 1..Len(results)}

Get(results, unit) == results[CHOOSE i \in 1..Len(results) : results[i].unit = unit]

\* a summary that reports the linear forecast as the ensemble
EnsembleLinearOnly(linear_forecast, seasonal_forecast) == linear_forecast

\* ensemble_forecast = (linear_forecast + seasonal_forecast) / 2
Ensemble(linear_forecast, seasonal_forecast) ==
    QDiv(QAdd(linear_forecast, seasonal_forecast), Q(2))

\* a summary that pairs the k-th linear value with the k-th seasonal value from
\* the end
SummaryRowsReversed(linear, seasonal) ==
    AsArray([i \in 1..Len(linear.forecast_dates) |->
        [date |-> linear.forecast_dates[i],
         business_unit |-> linear.unit,
         linear_forecast |-> linear.forecast[i],
         seasonal_forecast |-> seasonal.forecast[Len(seasonal.forecast) + 1 - i],
         ensemble_forecast |->
             QDiv(QAdd(linear.forecast[i],
                       seasonal.forecast[Len(seasonal.forecast) + 1 - i]), Q(2)),
         forecast_type |-> "prediction"]])

\* the rows of one unit: one per date of the linear result, paired by position
SummaryRows(linear, seasonal) ==
    AsArray([i \in 1..Len(linear.forecast_dates) |->
        [date |-> linear.forecast_dates[i],
         business_unit |-> linear.unit,
         linear_forecast |-> linear.forecast[i],
         seasonal_forecast |-> seasonal.forecast[i],
         ensemble_forecast |-> Ensemble(linear.forecast[i], seasonal.forecast[i]),
         forecast_type |-> "prediction"]])

\* if unit in seasonal_results
InBoth(unit, seasonal_results_) == unit \in Keys(seasonal_results_)

RECURSIVE CreateForecastSummary(_, _)
CreateForecastSummary(linear_results_, seasonal_results_) ==
    IF linear_results_ = <<>> THEN <<>>
    ELSE (IF InBoth(Head(linear_results_).unit, seasonal_results_)
          THEN SummaryRows(Head(linear_results_),
                           Get(seasonal_results_, Head(linear_results_).unit))
          ELSE <<>>)
         \o CreateForecastSummary(Tail(linear_results_), seasonal_results_)

\* pd.DataFrame(summary_data): an empty list gives a table without any column
Columns(table) ==
    IF table = <<>> THEN {}
    ELSE {"date", "business_unit", "linear_forecast", "seasonal_forecast",
          "ensemble_forecast", "forecast_type"}

(***************************************************************************)
(* KPI thresholds (src/config/settings.py)                                 *)
(***************************************************************************)
REVENUE_GROWTH_TARGET == <<3, 20>>
PROFIT_MARGIN_TARGET == <<1, 5>>
CUSTOMER_RETENTION_TARGET == <<9, 10>>

(***************************************************************************)
(* KPICalculator.calculate_revenue_kpis                                    *)
(***************************************************************************)
\* days since 1 January 2021
RECURSIVE DaysBefore(_)
DaysBefore(m) == IF m = 0 THEN 0 ELSE DaysBefore(m - 1) + DaysInMonth(m - 1)

DayNumber(date) == DaysBefore(date.m) + date.d - 1

DateSet(rows) == {rows[i].date : i \in 1..Len(rows)}

RECURSIVE SortDates(_)
\* the dates of a set in ascending order
SortDates(dates) ==
    IF dates = {} THEN <<>>
    ELSE LET first == CHOOSE a \in dates : \A b \in dates : DateLe(a, b)
         IN  <<first>> \o SortDates(dates \ {first})

RECURSIVE RowsOfDate(_, _)
RowsOfDate(rows, date) ==
    IF rows = <<>> THEN <<>>
    ELSE (IF Head(rows).date = date THEN <<Head(rows)>> ELSE <<>>)
         \o RowsOfDate(Tail(rows), date)

QColumn(rows, f) == AsArray([i \in 1..Len(rows) |-> Q(rows[i][f])])

\* revenue_df.groupby('date').agg({...}).reset_index(): one row per date, ascending
MonthlyMetrics(rows) ==
    LET dates == SortDates(DateSet(rows))
    IN  AsArray([i \in 1..Len(dates) |->
            LET g == RowsOfDate(rows, dates[i])
            IN  [date |-> dates[i],
                 revenue |-> QSum(QColumn(g, "revenue")),
                 customer_count |-> QSum(QColumn(g, "customer_count")),
                 marketing_spend |-> QSum(QColumn(g, "marketing_spend")),
                 profit_margin |-> QMean(Column(g, "profit_margin")),
                 sales_team_size |-> QSum(QColumn(g, "sales_team_size"))]])

\* a change against the row before, whatever the number of periods
PctChangeOneBack(col, i, periods) ==
    IF i - 1 < 1 THEN NaN ELSE QSub(QDiv(col[i], col[i - 1]), Q(1))

\* Series.pct_change(periods) at row i: x[i] / x[i - periods] - 1, missing at the start
PctChange(col, i, periods) ==
    IF i - periods < 1 THEN NaN ELSE QSub(QDiv(col[i], col[i - periods]), Q(1))

\* Series.rolling(window).mean() at row i: missing until the window is full
RollingMean(col, i, window) ==
    IF i < window THEN NaN ELSE QMean(SubSeq(col, i - window + 1, i))

\* revenue / customer_count and the other ratios of two columns
Ratio(a, b) == QDiv(a, b)

CalculateRevenueKpis(rows) ==
    LET m == MonthlyMetrics(rows)
        revenue == Column(m, "revenue")
        customer_count == Column(m, "customer_count")
    IN  AsArray([i \in 1..Len(m) |->
            [date |-> m[i].date,
             revenue |-> m[i].revenue,
             customer_count |-> m[i].customer_count,
             marketing_spend |-> m[i].marketing_spend,
             profit_margin |-> m[i].profit_margin,
             sales_team_size |-> m[i].sales_team_size,
             revenue_mom_growth |-> PctChange(revenue, i, 1),
             revenue_yoy_growth |-> PctChange(revenue, i, 12),
             revenue_3m_avg |-> RollingMean(revenue, i, 3),
             revenue_12m_avg |-> RollingMean(revenue, i, 12),
             customer_mom_growth |-> PctChange(customer_count, i, 1),
             revenue_per_customer |-> Ratio(m[i].revenue, m[i].customer_count),
             customers_per_salesperson |-> Ratio(m[i].customer_count, m[i].sales_team_size),
             marketing_roi |-> Ratio(m[i].revenue, m[i].marketing_spend),
             marketing_spend_ratio |-> Ratio(m[i].marketing_spend, m[i].revenue),
             revenue_target_achievement |->
                 QDiv(PctChange(revenue, i, 12), REVENUE_GROWTH_TARGET),
             profit_margin_vs_target |-> QDiv(m[i].profit_margin, PROFIT_MARGIN_TARGET)]])

(***************************************************************************)
(* KPICalculator.calculate_business_unit_kpis                              *)
(***************************************************************************)
\* unit_data[unit_data['date'] <= latest_month['date'] - timedelta(days=300)]
RECURSIVE OnOrBefore(_, _)
OnOrBefore(unit_data, day) ==
    IF unit_data = <<>> THEN <<>>
    ELSE (IF DayNumber(Head(unit_data).date) <= day THEN <<Head(unit_data)>> ELSE <<>>)
         \o OnOrBefore(Tail(unit_data), day)

\* (latest - reference) / reference, as the code writes it for mom and yoy growth
Growth(latest, reference) == QDiv(QSub(Q(latest), Q(reference)), Q(reference))

\* numerator / divisor if divisor > 0 else 0
GuardedRatio(numerator, divisor) ==
    IF divisor > 0 THEN QDiv(Q(numerator), Q(divisor)) ELSE Zero

\* the square of Series.std() (ddof = 1): missing for a single observation
SampleVariance(col) ==
    LET mean == QMean(col)
    IN  QDiv(QSum(AsArray([i \in 1..Len(col) |->
                 QMul(QSub(col[i], mean), QSub(col[i], mean))])),
             Q(Len(col) - 1))

RECURSIVE RevenueOfYear(_, _)
RevenueOfYear(unit_data, year) ==
    IF unit_data = <<>> THEN <<>>
    ELSE (IF YearOf(Head(unit_data).date) = year THEN <<Q(Head(unit_data).revenue)>> ELSE <<>>)
         \o RevenueOfYear(Tail(unit_data), year)

\* the row of one unit; revenue_volatility (std / mean) is held as its square,
\* variance / mean^2: the square root keeps zero, infinity and NaN
UnitKpiRow(unit, rows) ==
    LET unit_data == SortValues(rows)
        n == Len(unit_data)
        latest_month == unit_data[n]
        previous_month == IF n > 1 THEN unit_data[n - 1] ELSE unit_data[n]
        earlier == OnOrBefore(unit_data, DayNumber(latest_month.date) - 300)
        same_month_last_year == IF earlier # <<>> THEN earlier[Len(earlier)] ELSE latest_month
        revenue == QColumn(unit_data, "revenue")
    IN  [business_unit |-> unit,
         latest_month |-> latest_month.date,
         current_revenue |-> Q(latest_month.revenue),
         previous_month_revenue |-> Q(previous_month.revenue),
         mom_growth |-> Growth(latest_month.revenue, previous_month.revenue),
         yoy_growth |-> Growth(latest_month.revenue, same_month_last_year.revenue),
         ytd_revenue |-> QSum(RevenueOfYear(unit_data, YearOf(latest_month.date))),
         avg_monthly_revenue |-> QMean(revenue),
         revenue_volatility |->
             QDiv(SampleVariance(revenue), QMul(QMean(revenue), QMean(revenue))),
         customer_count |-> Q(latest_month.customer_count),
         revenue_per_customer |->
             GuardedRatio(latest_month.revenue, latest_month.customer_count),
         profit_margin |-> latest_month.profit_margin,
         marketing_roi |->
             GuardedRatio(latest_month.revenue, latest_month.marketing_spend)]

RECURSIVE UnitKpiLoop(_, _)
UnitKpiLoop(units, rows) ==
    IF units = <<>> THEN <<>>
    ELSE <<UnitKpiRow(Head(units), SelectRows(rows, Head(units)))>>
         \o UnitKpiLoop(Tail(units), rows)

\* a loop that leaves out the units below the minimum history of the forecasts
CalculateBusinessUnitKpisGated(rows) ==
    UnitKpiLoop(SelectSeq(Unique(rows),
                          LAMBDA unit : Len(SelectRows(rows, unit)) >= MIN_HISTORICAL_PERIODS),
                rows)

\* for unit in revenue_df['business_unit'].unique(): ...; pd.DataFrame(unit_kpis)
CalculateBusinessUnitKpis(rows) == UnitKpiLoop(Unique(rows), rows)

(***************************************************************************)
(* KPICalculator.calculate_advanced_kpis                                   *)
(***************************************************************************)
KpiColumns ==
    {"customer_acquisition_cost", "customer_lifetime_value", "churn_rate",
     "retention_rate", "net_promoter_score", "conversion_rate", "market_share"}

RevenueColumns == {"revenue", "customer_count", "marketing_spend"}

\* the value of column f at a date, missing when the table has no row of that date
ValueAt(table, date, f) ==
    IF \E i \in 1..Len(table) : table[i].date = date
    THEN table[CHOOSE i \in 1..Len(table) : table[i].date = date][f]
    ELSE NaN

\* pd.merge(aggregate, kpi_df, on='date', how='outer'): one row per date of either
\* table, in ascending date order
OuterMerge(aggregate, kpi_rows) ==
    LET dates == SortDates(DateSet(aggregate) \cup DateSet(kpi_rows))
    IN  AsArray([i \in 1..Len(dates) |->
            [f \in RevenueColumns |-> ValueAt(aggregate, dates[i], f)]
            @@ [f \in KpiColumns |-> ValueAt(kpi_rows, dates[i], f)]
            @@ [date |-> dates[i]]])

\* one row after the row above it: a missing value takes the value above
FillRow(above, row) ==
    [f \in DOMAIN row |->
        IF f # "date" /\ IsNaN(row[f]) THEN above[f] ELSE row[f]] @@ <<>>

RECURSIVE FfillTo(_, _)
FfillTo(table, k) ==
    IF k = 0 THEN <<>>
    ELSE IF k = 1 THEN <<table[1]>>
    ELSE LET filled == FfillTo(table, k - 1)
         IN  Append(filled, FillRow(filled[k - 1], table[k]))

\* a table left as the join returned it
Unfilled(table) == table

\* DataFrame.ffill()
Ffill(table) == FfillTo(table, Len(table))

CalculateAdvancedKpis(rows, kpi_rows) ==
    LET merged_df == Ffill(OuterMerge(MonthlyMetrics(rows), kpi_rows))
    IN  AsArray([i \in 1..Len(merged_df) |->
            LET r == merged_df[i]
            IN  r @@
                [clv_to_cac_ratio |->
                     QDiv(r.customer_lifetime_value, r.customer_acquisition_cost),
                 market_penetration |-> QMul(r.customer_count, r.market_share),
                 customer_health_score |->
                     QAdd(QAdd(QMul(r.retention_rate, <<2, 5>>),
                               QMul(QDiv(r.net_promoter_score, Q(100)), <<3, 10>>)),
                          QMul(r.conversion_rate, <<3, 10>>)),
                 revenue_quality_score |->
                     QAdd(QMul(r.retention_rate, <<1, 2>>),
                          QMul(QSub(Q(1), r.churn_rate), <<1, 2>>))]])

(***************************************************************************)
(* KPICalculator.identify_performance_alerts                               *)
(***************************************************************************)
Alert(type, unit, severity) ==
    [type |-> type, business_unit |-> unit, severity |-> severity]

\* if unit['yoy_growth'] < 0
RevenueDecline(unit) == QLt(unit.yoy_growth, Zero)

\* a test that also fires at the threshold
MonthlyRevenueDropAtThreshold(unit) ==
    QLt(unit.mom_growth, <<-1, 10>>) \/ unit.mom_growth = <<-1, 10>>

\* if unit['mom_growth'] < -0.1
MonthlyRevenueDrop(unit) == QLt(unit.mom_growth, <<-1, 10>>)

\* if unit['profit_margin'] < PROFIT_MARGIN_TARGET
LowProfitMargin(unit) == QLt(unit.profit_margin, PROFIT_MARGIN_TARGET)

\* the alerts of one row of the per-unit table, in the order of the three tests
UnitAlerts(unit) ==
    (IF RevenueDecline(unit)
     THEN <<Alert("Revenue Decline", unit.business_unit, "High")>> ELSE <<>>)
    \o (IF MonthlyRevenueDrop(unit)
        THEN <<Alert("Monthly Revenue Drop", unit.business_unit, "Medium")>> ELSE <<>>)
    \o (IF LowProfitMargin(unit)
        THEN <<Alert("Low Profit Margin", unit.business_unit, "Medium")>> ELSE <<>>)

RECURSIVE UnitAlertLoop(_)
UnitAlertLoop(unit_rows) ==
    IF unit_rows = <<>> THEN <<>>
    ELSE UnitAlerts(Head(unit_rows)) \o UnitAlertLoop(Tail(unit_rows))

\* a reading of the first row instead of the last
EarliestAdvanced(advanced) == advanced[1]

\* latest_advanced = advanced_kpis.iloc[-1]
LatestAdvanced(advanced) == advanced[Len(advanced)]

\* if latest_advanced['retention_rate'] < CUSTOMER_RETENTION_TARGET
LowRetention(latest_advanced) ==
    QLt(latest_advanced.retention_rate, CUSTOMER_RETENTION_TARGET)

\* if latest_advanced['churn_rate'] > 0.05
HighChurn(latest_advanced) == QGt(latest_advanced.churn_rate, <<1, 20>>)

\* if latest_advanced['clv_to_cac_ratio'] < 3
LowClvCac(latest_advanced) == QLt(latest_advanced.clv_to_cac_ratio, Q(3))

CompanyAlerts(latest_advanced) ==
    (IF LowRetention(latest_advanced)
     THEN <<Alert("Low Retention Rate", "All", "High")>> ELSE <<>>)
    \o (IF HighChurn(latest_advanced)
        THEN <<Alert("High Churn Rate", "All", "High")>> ELSE <<>>)
    \o (IF LowClvCac(latest_advanced)
        THEN <<Alert("Low CLV/CAC Ratio", "All", "Medium")>> ELSE <<>>)

\* a list kept on the object and added to by every call
IdentifyPerformanceAlertsAccumulated(unit_rows, advanced) ==
    alerts \o UnitAlertLoop(unit_rows) \o CompanyAlerts(LatestAdvanced(advanced))

\* the alert list; the message text of an alert is left out
IdentifyPerformanceAlerts(unit_rows, advanced) ==
    UnitAlertLoop(unit_rows) \o CompanyAlerts(LatestAdvanced(advanced))

(***************************************************************************)
(* DataProcessor                                                           *)
(*                                                                         *)
(* A cell of the date, business_unit and revenue columns of a table read   *)
(* from a raw file is <<>> when it is missing (NaT, NaN) and <<v>> when it *)
(* holds v; the tables computed from the validated rows hold the values.   *)
(***************************************************************************)
\* Series.notna()
NotNa(cell) == cell # <<>>

\* a filter that only asks for a revenue to be there
RevenuePresent(r) == NotNa(r.revenue)

\* df['revenue'].notna() & (df['revenue'] >= 0)
RevenueKept(r) == NotNa(r.revenue) /\ r.revenue[1] >= 0

\* df['date'].notna()
DateKept(r) == NotNa(r.date)

\* df['business_unit'].notna()
UnitKept(r) == NotNa(r.business_unit)

\* _validate_data: the three filters one after the other
ValidateData(rows) == SelectSeq(SelectSeq(SelectSeq(rows, RevenueKept), DateKept), UnitKept)

\* the sort key of sort_values('date'): a missing date goes last
RawDateLe(a, b) ==
    IF ~NotNa(b.date) THEN TRUE
    ELSE IF ~NotNa(a.date) THEN FALSE
    ELSE DateLe(a.date[1], b.date[1])

\* a stable sort of rows by the order le, given on their positions: le[i][j]
\* when row i is not after row j (tables of this size are sorted by insertion)
StableSort(rows, le) ==
    LET rank == AsArray([i \in 1..Len(rows) |->
                    Cardinality({j \in 1..Len(rows) :
                        IF j < i THEN le[j][i] ELSE ~le[i][j]})])
    IN  AsArray([p \in 1..Len(rows) |->
            rows[CHOOSE i \in 1..Len(rows) : rank[i] = p - 1]])

\* df.sort_values('date') of the raw revenue rows
SortByDate(rows) ==
    StableSort(rows, [i \in 1..Len(rows) |-> [j \in 1..Len(rows) |->
                         RawDateLe(rows[i], rows[j])]])

\* load_kpi_data after the file is read: df.sort_values('date'), every date present
LoadKpiDataResult(rows) ==
    StableSort(rows, [i \in 1..Len(rows) |-> [j \in 1..Len(rows) |->
                         DateLe(rows[i].date, rows[j].date)]])

\* load_revenue_data after the file is read: sort by date, then validate
LoadRevenueDataResult(rows) == ValidateData(SortByDate(rows))

\* a validated row with the values of its cells
Values(r) ==
    [date |-> r.date[1],
     business_unit |-> r.business_unit[1],
     revenue |-> r.revenue[1],
     customer_count |-> r.customer_count,
     marketing_spend |-> r.marketing_spend,
     profit_margin |-> r.profit_margin,
     sales_team_size |-> r.sales_team_size]

\* row i - periods of the same unit exists (the table is sorted by unit and date)
InGroup(rows, i, periods) ==
    i - periods >= 1 /\ rows[i - periods].business_unit = rows[i].business_unit

\* df.groupby('business_unit')[col].pct_change(periods) at row i
GroupPctChange(rows, col, i, periods) ==
    IF InGroup(rows, i, periods)
    THEN QSub(QDiv(Q(rows[i][col]), Q(rows[i - periods][col])), Q(1))
    ELSE NaN

\* the revenue of the window rows that end at row i, missing until the unit has
\* that many rows
GroupWindow(rows, i, window) ==
    IF InGroup(rows, i, window - 1)
    THEN AsArray([k \in 1..window |-> Q(rows[i - window + k].revenue)])
    ELSE <<NaN>>

CalculateDerivedMetrics(validated) ==
    LET rows == SortValues(AsArray([i \in 1..Len(validated) |-> Values(validated[i])]))
    IN  AsArray([i \in 1..Len(rows) |->
            rows[i] @@
            [revenue_mom_growth |-> GroupPctChange(rows, "revenue", i, 1),
             revenue_yoy_growth |-> GroupPctChange(rows, "revenue", i, 12),
             revenue_3m_avg |-> QMean(GroupWindow(rows, i, 3)),
             revenue_12m_sum |-> QSum(GroupWindow(rows, i, 12)),
             customer_mom_growth |-> GroupPctChange(rows, "customer_count", i, 1),
             revenue_per_customer |-> QDiv(Q(rows[i].revenue), Q(rows[i].customer_count))]])

\* monthly aggregation across all business units, labelled 'Total'
AggregateData(rows) ==
    LET monthly_agg == MonthlyMetrics(rows)
    IN  AsArray([i \in 1..Len(monthly_agg) |->
            monthly_agg[i] @@ [business_unit |-> "Total"]])

\* revenue_df['date'].min().strftime(...) raises on the NaT of an empty table
DataSummaryRaises(rows) == rows = <<>>

(***************************************************************************)
(* Input tables                                                            *)
(***************************************************************************)
\* a revenue series is a yearly step on a base level plus a peak every March
Shapes ==
    {sh \in [base : 0..MaxLevel, step : {-1, 0, 1}, amp : {0, MaxLevel}] :
        sh.base + 2 * sh.step >= 0}

ShapesB == {[base |-> 1, step |-> 0, amp |-> 0], [base |-> 0, step |-> 1, amp |-> MaxLevel]}

LensA == (MIN_HISTORICAL_PERIODS - 1)..(MIN_HISTORICAL_PERIODS + MaxExtra)

LensB == {0, 1, MIN_HISTORICAL_PERIODS - 1, MIN_HISTORICAL_PERIODS}

DayKinds == {"MS", "ME"}

RevenueAt(sh, i, date) ==
    sh.base + sh.step * (i \div 12) + (IF MonthOf(date) = 3 THEN sh.amp ELSE 0)

DateAt(start, kind, i) == IF kind = "MS" THEN MonthStart(start + i) ELSE MonthEnd(start + i)

\* n monthly rows of one unit from month `start` on, non-negative revenue
SeriesOf(unit, n, start, kind, sh) ==
    AsArray([i \in 1..n |->
        [date |-> DateAt(start, kind, i - 1),
         business_unit |-> unit,
         revenue |-> RevenueAt(sh, i - 1, DateAt(start, kind, i - 1))]])

Reverse(s) == AsArray([i \in 1..Len(s) |-> s[Len(s) + 1 - i]])

\* two units' series of the same first month and kind of date, unit by unit
SortedTables(starts, kinds) ==
    {SeriesOf(Units[1], na, start, kind, sa) \o SeriesOf(Units[2], nb, start, kind, sb) :
        na \in LensA, nb \in LensB, start \in starts, kind \in kinds,
        sa \in Shapes, sb \in ShapesB}

\* the file as data_processor writes it (sorted by unit and date), or, for the
\* series of month starts from January 2021 on, in reverse
InputTables ==
    SortedTables(0..MaxStartOffset, DayKinds)
        \cup {Reverse(t) : t \in SortedTables({0}, {"MS"})}

\* 24 rows of one unit over 26 months, with no row in either December
GapSeries(unit, sh) ==
    AsArray([i \in 1..MIN_HISTORICAL_PERIODS |->
        LET date == MonthStart((i - 1) + ((i - 1) \div 11))
        IN  [date |-> date, business_unit |-> unit, revenue |-> RevenueAt(sh, i - 1, date)]])

GapTables ==
    {GapSeries(Units[1], sh) : sh \in {[base |-> 1, step |-> 0, amp |-> 0],
                                       [base |-> 1, step |-> 1, amp |-> MaxLevel]}}

(***************************************************************************)
(* RevenueForecaster.run_forecasting_pipeline                              *)
(***************************************************************************)
Raise(e) == pc' = "raised" /\ error' = e

\* nothing computed yet by a forecasting run, by a KPI run
NoForecastRun ==
    /\ df = <<>>
    /\ df_features = <<>>
    /\ linear_results = <<>>
    /\ seasonal_results = <<>>
    /\ forecasts_df = <<>>

NoDataRun ==
    /\ raw_revenue = <<>>
    /\ raw_kpi = <<>>
    /\ dp_revenue_df = <<>>
    /\ dp_kpi_df = <<>>
    /\ dp_processed = <<>>
    /\ aggregated_data = <<>>

NoIntervalCall ==
    /\ forecast = <<>>
    /\ historical_errors = <<>>
    /\ intervals = <<>>

NoReportRun ==
    /\ revenue_forecasts_csv = <<>>
    /\ performance_alerts_csv = <<>>
    /\ report_data = <<>>
    /\ summary = <<>>

NoFullRun ==
    /\ stage = "none"
    /\ success = "none"
    /\ skip_data_generation = FALSE

NoOtherRun == NoIntervalCall /\ NoReportRun /\ NoFullRun

NoKpiRun ==
    /\ revenue_df = <<>>
    /\ kpi_df = <<>>
    /\ monthly_kpis = <<>>
    /\ unit_kpis = <<>>
    /\ advanced_kpis = <<>>
    /\ alerts = <<>>

Init ==
    /\ pc = "start"
    /\ error = "none"
    /\ \/ /\ files = {"processed_revenue.csv"}
          /\ processed_revenue \in InputTables \cup GapTables
       \/ /\ files = {}
          /\ processed_revenue = <<>>
    /\ processed_kpi = <<>>
    /\ NoForecastRun
    /\ NoKpiRun
    /\ NoOtherRun
    /\ NoDataRun

\* df = self.load_processed_data()
LoadProcessedData ==
    /\ pc = "start"
    /\ IF "processed_revenue.csv" \notin files
       THEN Raise("FileNotFoundError") /\ UNCHANGED df
       ELSE pc' = "data" /\ df' = processed_revenue /\ UNCHANGED error
    /\ UNCHANGED <<kvars, processed_kpi, files, processed_revenue, df_features, linear_results,
                   seasonal_results, forecasts_df>>
    /\ UNCHANGED dvars
    /\ UNCHANGED xvars

\* df_features, feature_cols = self.prepare_features(df)
PrepareFeaturesStep ==
    /\ pc = "data"
    /\ pc' = "features"
    /\ df_features' = PrepareFeatures(df)
    /\ UNCHANGED <<kvars, processed_kpi, files, processed_revenue, df, linear_results, seasonal_results,
                   forecasts_df, error>>
    /\ UNCHANGED dvars
    /\ UNCHANGED xvars

\* linear_results = self.linear_trend_forecast(df_features)
LinearTrendForecastStep ==
    /\ pc = "features"
    /\ pc' = "linear"
    /\ linear_results' = LinearTrendForecast(df_features)
    /\ UNCHANGED <<kvars, processed_kpi, files, processed_revenue, df, df_features, seasonal_results,
                   forecasts_df, error>>
    /\ UNCHANGED dvars
    /\ UNCHANGED xvars

\* seasonal_results = self.seasonal_decomposition_forecast(df_features)
SeasonalDecompositionForecastStep ==
    /\ pc = "linear"
    /\ IF SeasonalRaises(df_features)
       THEN Raise("ValueError") /\ UNCHANGED seasonal_results
       ELSE /\ pc' = "seasonal"
            /\ seasonal_results' = SeasonalDecompositionForecast(df_features)
            /\ UNCHANGED error
    /\ UNCHANGED <<kvars, processed_kpi, files, processed_revenue, df, df_features, linear_results, forecasts_df>>
    /\ UNCHANGED dvars
    /\ UNCHANGED xvars

\* forecasts_df = self.create_forecast_summary(linear_results, seasonal_results)
CreateForecastSummaryStep ==
    /\ pc = "seasonal"
    /\ pc' = "summary"
    /\ forecasts_df' = CreateForecastSummary(linear_results, seasonal_results)
    /\ UNCHANGED <<kvars, processed_kpi, files, processed_revenue, df, df_features, linear_results,
                   seasonal_results, error>>
    /\ UNCHANGED dvars
    /\ UNCHANGED xvars

\* self.save_forecasts(forecasts_df)
SaveForecasts ==
    /\ pc = "summary"
    /\ pc' = "saved"
    /\ files' = files \cup {"revenue_forecasts.csv"}
    /\ UNCHANGED <<kvars, processed_kpi, processed_revenue, df, df_features, linear_results, seasonal_results,
                   forecasts_df, error>>
    /\ UNCHANGED dvars
    /\ revenue_forecasts_csv' = ToCsv(forecasts_df)
    /\ UNCHANGED <<cvars, ovars, performance_alerts_csv, report_data, summary>>

\* forecasts_df[forecasts_df['business_unit'] == unit], evaluated for every unit
\* of df, raises KeyError on a table that has no such column
PlotsRaise(rows, table) == Unique(rows) # <<>> /\ "business_unit" \notin Columns(table)

\* self.create_forecast_plots(df, forecasts_df)
CreateForecastPlots ==
    /\ pc = "saved"
    /\ IF PlotsRaise(df, forecasts_df)
       THEN Raise("KeyError") /\ UNCHANGED files
       ELSE /\ pc' = "plotted"
            /\ files' = files \cup {"revenue_forecasts.png"}
            /\ UNCHANGED error
    /\ UNCHANGED <<kvars, processed_kpi, processed_revenue, df, df_features, linear_results, seasonal_results,
                   forecasts_df>>
    /\ UNCHANGED dvars
    /\ UNCHANGED xvars

\* self._generate_forecast_summary(forecasts_df); return forecasts_df
GenerateForecastSummary ==
    /\ pc = "plotted"
    /\ pc' = "done"
    /\ files' = IF forecasts_df = <<>> THEN files ELSE files \cup {"forecast_summary.txt"}
    /\ UNCHANGED <<kvars, processed_kpi, processed_revenue, df, df_features, linear_results, seasonal_results,
                   forecasts_df, error>>
    /\ UNCHANGED dvars
    /\ UNCHANGED xvars

Next ==
    \/ LoadProcessedData
    \/ PrepareFeaturesStep
    \/ LinearTrendForecastStep
    \/ SeasonalDecompositionForecastStep
    \/ CreateForecastSummaryStep
    \/ SaveForecasts
    \/ CreateForecastPlots
    \/ GenerateForecastSummary

Spec == Init /\ [][Next]_vars

(***************************************************************************)
(* RevenueForecaster.create_forecast_summary called on its own             *)
(***************************************************************************)
\* tables of two units, unit A around the history threshold and unit B at it
SummaryTables ==
    {SeriesOf(Units[1], na, 0, kind, sa) \o SeriesOf(Units[2], MIN_HISTORICAL_PERIODS, 0, kind, sb) :
        na \in {MIN_HISTORICAL_PERIODS - 1, MIN_HISTORICAL_PERIODS},
        kind \in DayKinds, sa \in Shapes, sb \in ShapesB}

\* df[df['business_unit'].isin(units)]
RowsOfUnits(rows, units) == SelectSeq(rows, LAMBDA r : r.business_unit \in units)

InitSummary ==
    /\ pc = "start"
    /\ error = "none"
    /\ files = {}
    /\ processed_revenue = <<>>
    /\ processed_kpi = <<>>
    /\ NoForecastRun
    /\ NoKpiRun
    /\ NoDataRun
    /\ NoOtherRun

\* forecaster.create_forecast_summary(linear_results, seasonal_results), the two
\* results being those of the two forecasters on the rows of some units of one
\* table each
CallCreateForecastSummary ==
    /\ pc = "start"
    /\ \E table \in SummaryTables :
       \E linear_units, seasonal_units \in SUBSET {Units[i] : i \in 1..Len(Units)} :
       \E linear_df \in {PrepareFeatures(RowsOfUnits(table, linear_units))} :
       \E seasonal_df \in {PrepareFeatures(RowsOfUnits(table, seasonal_units))} :
          /\ ~SeasonalRaises(seasonal_df)
          /\ linear_results' = LinearTrendForecast(linear_df)
          /\ seasonal_results' = SeasonalDecompositionForecast(seasonal_df)
          /\ forecasts_df' = CreateForecastSummary(linear_results', seasonal_results')
    /\ pc' = "summary"
    /\ UNCHANGED <<kvars, files, processed_revenue, processed_kpi, df, df_features, error>>
    /\ UNCHANGED dvars
    /\ UNCHANGED xvars

NextSummary == CallCreateForecastSummary

SpecSummary == InitSummary /\ [][NextSummary]_vars

(***************************************************************************)
(* Input tables of the KPI runs                                            *)
(***************************************************************************)
\* zero, and the three levels up to MaxKpiRevenue: a drop of 20%, of 10%, none
RevLevels == {0} \cup (MaxKpiRevenue - 2)..MaxKpiRevenue

KpiRevenueRow(unit, m, revenue, active, margin) ==
    [date |-> MonthStart(m),
     business_unit |-> unit,
     revenue |-> revenue,
     customer_count |-> IF active THEN 2 ELSE 0,
     marketing_spend |-> IF active THEN 1 ELSE 0,
     profit_margin |-> margin,
     sales_team_size |-> IF active THEN 5 ELSE 0]

\* unit A: its last one to three of the months January, November, December 2021
SeriesA ==
    {SubSeq(<<KpiRevenueRow(Units[1], 0, r1, p[1], p[2]),
              KpiRevenueRow(Units[1], 10, r2, p[1], p[2]),
              KpiRevenueRow(Units[1], 11, r3, p[1], p[2])>>, 4 - n, 3) :
        n \in 1..3, r1 \in {0, MaxKpiRevenue}, r2 \in RevLevels, r3 \in RevLevels,
        p \in {<<TRUE, <<1, 4>>>>, <<TRUE, <<1, 5>>>>, <<TRUE, <<19, 100>>>>,
               <<FALSE, <<1, 4>>>>}}

\* unit B: absent, or a single month
SeriesB ==
    {<<>>,
     <<KpiRevenueRow(Units[2], 11, MaxKpiRevenue, TRUE, <<1, 4>>)>>,
     <<KpiRevenueRow(Units[2], 10, 0, TRUE, <<19, 100>>)>>}

\* unit A over thirteen dates: every month of 2021 and then January 2022, or
\* February 2022 in its place
LongSeriesA ==
    {AsArray([i \in 1..13 |->
         KpiRevenueRow(Units[1], IF i = 13 THEN last ELSE i - 1,
                       IF i = 1 THEN r1 ELSE IF i = 13 THEN r13 ELSE MaxKpiRevenue,
                       TRUE, <<1, 4>>)]) :
        last \in {12, 13}, r1 \in {0, MaxKpiRevenue - 2}, r13 \in RevLevels}

\* processed_revenue.csv is sorted by unit and date (calculate_derived_metrics)
KpiRevenueTables ==
    {<<>>} \cup {a \o b : a \in SeriesA \cup LongSeriesA, b \in SeriesB}

KpiSeriesRow(m, cac, clv, churn, retention) ==
    [date |-> MonthStart(m),
     customer_acquisition_cost |-> Q(cac),
     customer_lifetime_value |-> Q(clv),
     churn_rate |-> churn,
     retention_rate |-> retention,
     net_promoter_score |-> Q(50),
     conversion_rate |-> <<1, 5>>,
     market_share |-> <<1, 10>>]

Healthy(m) == KpiSeriesRow(m, 100, 400, <<1, 25>>, <<19, 20>>)

AtThreshold(m) == KpiSeriesRow(m, 100, 300, <<1, 20>>, <<9, 10>>)

Unhealthy(m) == KpiSeriesRow(m, 100, 200, <<3, 50>>, <<89, 100>>)

\* processed_kpi.csv is sorted by date (load_kpi_data); it may end before or
\* after the revenue table does
KpiSeriesTables ==
    {<<>>, <<Healthy(11)>>, <<AtThreshold(11)>>, <<Unhealthy(11)>>,
     <<Unhealthy(10)>>, <<Unhealthy(12)>>,
     <<Unhealthy(10), Healthy(11)>>, <<Healthy(10), Unhealthy(11)>>,
     <<AtThreshold(10), Unhealthy(11)>>, <<Unhealthy(10), AtThreshold(11)>>}

(***************************************************************************)
(* KPICalculator.run_kpi_pipeline                                          *)
(***************************************************************************)
InitKPI ==
    /\ pc = "start"
    /\ error = "none"
    /\ \/ /\ files = {"processed_revenue.csv", "processed_kpi.csv"}
          /\ processed_revenue \in KpiRevenueTables
          /\ processed_kpi \in KpiSeriesTables
       \/ /\ files \in {{"processed_revenue.csv"}, {"processed_kpi.csv"}, {}}
          /\ processed_revenue = <<>>
          /\ processed_kpi = <<>>
    /\ NoForecastRun
    /\ NoKpiRun
    /\ NoDataRun
    /\ NoOtherRun

\* a load that goes on with empty tables when a file is missing
LoadDataLenient ==
    /\ pc = "start"
    /\ pc' = "loaded"
    /\ revenue_df' = processed_revenue
    /\ kpi_df' = processed_kpi
    /\ UNCHANGED <<fvars, files, processed_revenue, processed_kpi, monthly_kpis,
                   unit_kpis, advanced_kpis, alerts, error>>
    /\ UNCHANGED dvars
    /\ UNCHANGED xvars

\* revenue_df, kpi_df = self.load_data(): pd.read_csv raises on a missing file
LoadData ==
    /\ pc = "start"
    /\ IF {"processed_revenue.csv", "processed_kpi.csv"} \subseteq files
       THEN /\ pc' = "loaded"
            /\ revenue_df' = processed_revenue
            /\ kpi_df' = processed_kpi
            /\ UNCHANGED error
       ELSE Raise("FileNotFoundError") /\ UNCHANGED <<revenue_df, kpi_df>>
    /\ UNCHANGED <<fvars, files, processed_revenue, processed_kpi, monthly_kpis,
                   unit_kpis, advanced_kpis, alerts>>
    /\ UNCHANGED dvars
    /\ UNCHANGED xvars

\* monthly_kpis = self.calculate_revenue_kpis(revenue_df)
CalculateRevenueKpisStep ==
    /\ pc = "loaded"
    /\ pc' = "monthly"
    /\ monthly_kpis' = CalculateRevenueKpis(revenue_df)
    /\ UNCHANGED <<fvars, files, processed_revenue, processed_kpi, revenue_df, kpi_df,
                   unit_kpis, advanced_kpis, alerts, error>>
    /\ UNCHANGED dvars
    /\ UNCHANGED xvars

\* unit_kpis = self.calculate_business_unit_kpis(revenue_df)
CalculateBusinessUnitKpisStep ==
    /\ pc = "monthly"
    /\ pc' = "units"
    /\ unit_kpis' = CalculateBusinessUnitKpis(revenue_df)
    /\ UNCHANGED <<fvars, files, processed_revenue, processed_kpi, revenue_df, kpi_df,
                   monthly_kpis, advanced_kpis, alerts, error>>
    /\ UNCHANGED dvars
    /\ UNCHANGED xvars

\* advanced_kpis = self.calculate_advanced_kpis(revenue_df, kpi_df)
CalculateAdvancedKpisStep ==
    /\ pc = "units"
    /\ pc' = "advanced"
    /\ advanced_kpis' = CalculateAdvancedKpis(revenue_df, kpi_df)
    /\ UNCHANGED <<fvars, files, processed_revenue, processed_kpi, revenue_df, kpi_df,
                   monthly_kpis, unit_kpis, alerts, error>>
    /\ UNCHANGED dvars
    /\ UNCHANGED xvars

\* alerts = self.identify_performance_alerts(unit_kpis, advanced_kpis);
\* advanced_kpis.iloc[-1] raises IndexError on an empty table
IdentifyPerformanceAlertsStep ==
    /\ pc = "advanced"
    /\ IF advanced_kpis = <<>>
       THEN Raise("IndexError") /\ UNCHANGED alerts
       ELSE /\ pc' = "alerts"
            /\ alerts' = IdentifyPerformanceAlerts(unit_kpis, advanced_kpis)
            /\ UNCHANGED error
    /\ UNCHANGED <<fvars, files, processed_revenue, processed_kpi, revenue_df, kpi_df,
                   monthly_kpis, unit_kpis, advanced_kpis>>
    /\ UNCHANGED dvars
    /\ UNCHANGED xvars

\* dashboard_data = self.create_kpi_dashboard_data(...); monthly_kpis.iloc[-1]
\* raises IndexError on an empty table
CreateKpiDashboardData ==
    /\ pc = "alerts"
    /\ IF monthly_kpis = <<>>
       THEN Raise("IndexError")
       ELSE pc' = "dashboard" /\ UNCHANGED error
    /\ UNCHANGED <<fvars, kvars, files, processed_revenue, processed_kpi>>
    /\ UNCHANGED dvars
    /\ UNCHANGED xvars

\* self.create_kpi_visualizations(monthly_kpis, unit_kpis)
CreateKpiVisualizations ==
    /\ pc = "dashboard"
    /\ pc' = "charts"
    /\ files' = files \cup {"kpi_dashboard.png"}
    /\ UNCHANGED <<fvars, kvars, processed_revenue, processed_kpi, error>>
    /\ UNCHANGED dvars
    /\ UNCHANGED xvars

\* self.save_kpi_results(...); return dashboard_data
SaveKpiResults ==
    /\ pc = "charts"
    /\ pc' = "done"
    /\ files' = files \cup {"monthly_kpis.csv", "unit_kpis.csv", "advanced_kpis.csv",
                            "performance_alerts.csv", "kpi_summary.txt"}
    /\ UNCHANGED <<fvars, kvars, processed_revenue, processed_kpi, error>>
    /\ UNCHANGED dvars
    /\ performance_alerts_csv' = ToCsv(alerts)
    /\ UNCHANGED <<cvars, ovars, revenue_forecasts_csv, report_data, summary>>

NextKPI ==
    \/ LoadData
    \/ CalculateRevenueKpisStep
    \/ CalculateBusinessUnitKpisStep
    \/ CalculateAdvancedKpisStep
    \/ IdentifyPerformanceAlertsStep
    \/ CreateKpiDashboardData
    \/ CreateKpiVisualizations
    \/ SaveKpiResults

SpecKPI == InitKPI /\ [][NextKPI]_vars

(***************************************************************************)
(* Raw files                                                               *)
(***************************************************************************)
RawRow(date, unit, revenue, customers) ==
    [date |-> date,
     business_unit |-> unit,
     revenue |-> revenue,
     customer_count |-> customers,
     marketing_spend |-> 1,
     profit_margin |-> <<1, 4>>,
     sales_team_size |-> 5]

\* rows a raw revenue file may hold: valid ones (one of them with a negative
\* customer count) and one for each way of being invalid
RawPool ==
    <<RawRow(<<MonthStart(10)>>, <<Units[1]>>, <<MaxKpiRevenue>>, 2),
      RawRow(<<MonthStart(11)>>, <<Units[1]>>, <<0>>, 2),
      RawRow(<<MonthStart(11)>>, <<Units[2]>>, <<MaxKpiRevenue>>, -1),
      RawRow(<<MonthStart(11)>>, <<Units[1]>>, <<-1>>, 2),
      RawRow(<<MonthStart(11)>>, <<Units[1]>>, <<>>, 2),
      RawRow(<<>>, <<Units[1]>>, <<MaxKpiRevenue>>, 2),
      RawRow(<<MonthStart(11)>>, <<>>, <<MaxKpiRevenue>>, 2)>>

\* the files of up to MaxRawRows different rows of the pool, in any order
Picks(n) ==
    {f \in [1..n -> 1..Len(RawPool)] : \A i, j \in 1..n : i # j => f[i] # f[j]}

RawRevenueTables ==
    UNION {{AsArray([i \in 1..n |-> RawPool[f[i]]]) : f \in Picks(n)} : n \in 0..MaxRawRows}

RawKpiTables == {<<>>, <<Healthy(11)>>, <<Healthy(11), Unhealthy(10)>>}

(***************************************************************************)
(* DataProcessor.process_all_data, then KPICalculator.run_kpi_pipeline     *)
(***************************************************************************)
\* the files process_all_data writes
DataOutputs ==
    {"processed_revenue.csv", "aggregated_revenue.csv", "processed_kpi.csv", "data_summary.txt"}

\* processed_revenue.csv as an earlier run left it
EarlierProcessedRevenue == CalculateDerivedMetrics(LoadRevenueDataResult(<<RawPool[2]>>))

\* the raw files, both or one of them; with one of them, also the outputs an
\* earlier run may have left
InitData ==
    \E earlier \in {{}, DataOutputs} :
    /\ pc = "dp_start"
    /\ error = "none"
    /\ \/ /\ files = {"revenue_data.csv", "kpi_data.csv"}
          /\ earlier = {}
          /\ raw_revenue \in RawRevenueTables
          /\ raw_kpi \in RawKpiTables
       \/ /\ files = {"revenue_data.csv"} \cup earlier
          /\ raw_revenue \in {<<RawPool[1]>>}
          /\ raw_kpi = <<>>
       \/ /\ files = {"kpi_data.csv"} \cup earlier
          /\ raw_revenue = <<>>
          /\ raw_kpi \in {<<Healthy(11)>>}
    /\ dp_revenue_df = <<>>
    /\ dp_kpi_df = <<>>
    /\ dp_processed = <<>>
    /\ aggregated_data = <<>>
    /\ \/ /\ processed_revenue = <<>>
          /\ processed_kpi = <<>>
          /\ earlier = {}
       \/ /\ processed_revenue = EarlierProcessedRevenue
          /\ processed_kpi = <<Unhealthy(10)>>
          /\ earlier = DataOutputs
    /\ NoForecastRun
    /\ NoKpiRun
    /\ NoOtherRun

\* revenue_df = self.load_revenue_data()
LoadRevenueData ==
    /\ pc = "dp_start"
    /\ IF "revenue_data.csv" \notin files
       THEN Raise("FileNotFoundError") /\ UNCHANGED dp_revenue_df
       ELSE /\ pc' = "dp_revenue"
            /\ dp_revenue_df' = LoadRevenueDataResult(raw_revenue)
            /\ UNCHANGED error
    /\ UNCHANGED <<fvars, kvars, files, processed_revenue, processed_kpi, raw_revenue,
                   raw_kpi, dp_kpi_df, dp_processed, aggregated_data>>
    /\ UNCHANGED xvars

\* a load that takes a missing KPI file for one without rows
LoadKpiDataLenient ==
    /\ pc = "dp_revenue"
    /\ pc' = "dp_kpi"
    /\ dp_kpi_df' = IF "kpi_data.csv" \notin files THEN <<>> ELSE LoadKpiDataResult(raw_kpi)
    /\ UNCHANGED <<fvars, kvars, files, processed_revenue, processed_kpi, raw_revenue,
                   raw_kpi, dp_revenue_df, dp_processed, aggregated_data, error>>
    /\ UNCHANGED xvars

\* kpi_df = self.load_kpi_data()
LoadKpiData ==
    /\ pc = "dp_revenue"
    /\ IF "kpi_data.csv" \notin files
       THEN Raise("FileNotFoundError") /\ UNCHANGED dp_kpi_df
       ELSE /\ pc' = "dp_kpi"
            /\ dp_kpi_df' = LoadKpiDataResult(raw_kpi)
            /\ UNCHANGED error
    /\ UNCHANGED <<fvars, kvars, files, processed_revenue, processed_kpi, raw_revenue,
                   raw_kpi, dp_revenue_df, dp_processed, aggregated_data>>
    /\ UNCHANGED xvars

\* processed_revenue = self.calculate_derived_metrics(revenue_df)
CalculateDerivedMetricsStep ==
    /\ pc = "dp_kpi"
    /\ pc' = "dp_derived"
    /\ dp_processed' = CalculateDerivedMetrics(dp_revenue_df)
    /\ UNCHANGED <<fvars, kvars, files, processed_revenue, processed_kpi, raw_revenue,
                   raw_kpi, dp_revenue_df, dp_kpi_df, aggregated_data, error>>
    /\ UNCHANGED xvars

\* aggregated_data = self.aggregate_data(processed_revenue)
AggregateDataStep ==
    /\ pc = "dp_derived"
    /\ pc' = "dp_aggregated"
    /\ aggregated_data' = AggregateData(dp_processed)
    /\ UNCHANGED <<fvars, kvars, files, processed_revenue, processed_kpi, raw_revenue,
                   raw_kpi, dp_revenue_df, dp_kpi_df, dp_processed, error>>
    /\ UNCHANGED xvars

\* self.save_processed_data(processed_revenue, 'processed_revenue.csv')
SaveProcessedRevenue ==
    /\ pc = "dp_aggregated"
    /\ pc' = "dp_saved_revenue"
    /\ files' = files \cup {"processed_revenue.csv"}
    /\ processed_revenue' = dp_processed
    /\ UNCHANGED <<fvars, kvars, dvars, processed_kpi, error>>
    /\ UNCHANGED xvars

\* self.save_processed_data(aggregated_data, 'aggregated_revenue.csv')
SaveAggregatedRevenue ==
    /\ pc = "dp_saved_revenue"
    /\ pc' = "dp_saved_aggregated"
    /\ files' = files \cup {"aggregated_revenue.csv"}
    /\ UNCHANGED <<fvars, kvars, dvars, processed_revenue, processed_kpi, error>>
    /\ UNCHANGED xvars

\* self.save_processed_data(kpi_df, 'processed_kpi.csv')
SaveProcessedKpi ==
    /\ pc = "dp_saved_aggregated"
    /\ pc' = "dp_saved_kpi"
    /\ files' = files \cup {"processed_kpi.csv"}
    /\ processed_kpi' = dp_kpi_df
    /\ UNCHANGED <<fvars, kvars, dvars, processed_revenue, error>>
    /\ UNCHANGED xvars

\* self._generate_data_summary(processed_revenue, kpi_df)
GenerateDataSummary ==
    /\ pc = "dp_saved_kpi"
    /\ IF DataSummaryRaises(dp_processed)
       THEN Raise("ValueError") /\ UNCHANGED files
       ELSE /\ pc' = "dp_done"
            /\ files' = files \cup {"data_summary.txt"}
            /\ UNCHANGED error
    /\ UNCHANGED <<fvars, kvars, dvars, processed_revenue, processed_kpi>>
    /\ UNCHANGED xvars

\* main.py --mode kpi after --mode data: run_kpi_calculation_only
RunKpiCalculationOnly ==
    /\ pc = "dp_done"
    /\ pc' = "start"
    /\ UNCHANGED <<fvars, kvars, dvars, files, processed_revenue, processed_kpi, error>>
    /\ UNCHANGED xvars

NextData ==
    \/ LoadRevenueData
    \/ LoadKpiData
    \/ CalculateDerivedMetricsStep
    \/ AggregateDataStep
    \/ SaveProcessedRevenue
    \/ SaveAggregatedRevenue
    \/ SaveProcessedKpi
    \/ GenerateDataSummary
    \/ RunKpiCalculationOnly
    \/ NextKPI

SpecData == InitData /\ [][NextData]_vars

(***************************************************************************)
(* Calls of the two pipelines on the objects of one SystemOrchestrator     *)
(***************************************************************************)
\* n monthly rows of a unit from January 2021 on, level but for the last row
History(unit, n, last) ==
    AsArray([i \in 1..n |->
        KpiRevenueRow(unit, i - 1, IF i = n THEN last ELSE MaxKpiRevenue, TRUE, <<1, 4>>)])

\* unit A with one row or with the minimum history, alone or with unit B at the
\* minimum history
RunTables ==
    {<<>>} \cup
    {History(Units[1], na, last) \o History(Units[2], nb, MaxKpiRevenue) :
        na \in {1, MIN_HISTORICAL_PERIODS}, last \in {MaxKpiRevenue - 2, MaxKpiRevenue},
        nb \in {0, MIN_HISTORICAL_PERIODS}}

RunKpiTables == {<<>>, <<Healthy(11)>>, <<Unhealthy(22), Unhealthy(23)>>}

InitRuns ==
    /\ pc = "start"
    /\ error = "none"
    /\ files \in SUBSET {"processed_revenue.csv", "processed_kpi.csv"}
    /\ IF "processed_revenue.csv" \in files
       THEN processed_revenue \in RunTables ELSE processed_revenue = <<>>
    /\ IF "processed_kpi.csv" \in files
       THEN processed_kpi \in RunKpiTables ELSE processed_kpi = <<>>
    /\ NoForecastRun
    /\ NoKpiRun
    /\ NoDataRun
    /\ NoOtherRun

\* run_forecasting_only or run_kpi_calculation_only is called again, after a run
\* that returned or raised; the next load step decides which of the two it is
RunAgain ==
    /\ pc \in {"done", "raised"}
    /\ pc' = "start"
    /\ error' = "none"
    /\ UNCHANGED <<fvars, kvars, dvars, files, processed_revenue, processed_kpi>>
    /\ UNCHANGED xvars

NextRuns ==
    \/ Next
    \/ NextKPI
    \/ RunAgain

SpecRuns == InitRuns /\ [][NextRuns]_vars

(***************************************************************************)
(* RevenueForecaster.generate_confidence_intervals                         *)
(***************************************************************************)
\* CONFIDENCE_INTERVALS = [0.8, 0.95]
CONFIDENCE_INTERVALS == <<<<4, 5>>, <<19, 20>>>>

\* the largest absolute value of a historical error
MaxError == 2

\* int(x) of a non-negative x
Truncate(x) == x[1] \div x[2]

\* the square root of a square of a rational
Sqrt(x) ==
    IF ~IsFinite(x) THEN x
    ELSE <<CHOOSE r \in 0..x[1] : r * r = x[1], CHOOSE r \in 1..x[2] : r * r = x[2]>>

\* np.std: the population standard deviation, NaN of an empty array
Std(a) ==
    LET mean == QMean(a)
    IN  Sqrt(QMean(AsArray([i \in 1..Len(a) |->
                 QMul(QSub(a[i], mean), QSub(a[i], mean))])))

\* a table of z-scores with the two values exchanged
ZScoreSwapped(confidence) ==
    CASE confidence = <<4, 5>> -> <<49, 25>>
      [] confidence = <<19, 20>> -> <<32, 25>>

\* {0.8: 1.28, 0.95: 1.96}[confidence]
ZScore(confidence) ==
    CASE confidence = <<4, 5>> -> <<32, 25>>
      [] confidence = <<19, 20>> -> <<49, 25>>

\* f'{int(confidence*100)}%'
IntervalKey(confidence) == ToString(Truncate(QMul(confidence, Q(100)))) \o "%"

\* the dict after the first n passes of the loop over CONFIDENCE_INTERVALS
RECURSIVE IntervalsAfter(_, _, _)
IntervalsAfter(n, fc, std_error) ==
    IF n = 0 THEN <<>>
    ELSE LET confidence == CONFIDENCE_INTERVALS[n]
             margin == QMul(ZScore(confidence), std_error)
         IN  (IntervalKey(confidence) :>
                 [lower |-> AsArray([k \in 1..Len(fc) |-> QSub(fc[k], margin)]),
                  upper |-> AsArray([k \in 1..Len(fc) |-> QAdd(fc[k], margin)])])
             @@ IntervalsAfter(n - 1, fc, std_error)

GenerateConfidenceIntervalsResult(fc, errors) ==
    IntervalsAfter(Len(CONFIDENCE_INTERVALS), fc, Std(errors))

\* the arrays of at most n values of a set
ArraysUpTo(values, n) == UNION {[1..l -> values] : l \in 0..n}

ForecastValues == {Q(-1), Zero, <<5, 2>>}

ErrorValues == {Q(e) : e \in (0 - MaxError)..MaxError}

InitIntervals ==
    /\ pc = "start"
    /\ error = "none"
    /\ files = {}
    /\ processed_revenue = <<>>
    /\ processed_kpi = <<>>
    /\ NoForecastRun
    /\ NoKpiRun
    /\ NoDataRun
    /\ NoReportRun
    /\ NoFullRun
    /\ forecast \in ArraysUpTo(ForecastValues, 2) \ {<<>>}
    /\ historical_errors \in ArraysUpTo(ErrorValues, 2)
    /\ intervals = <<>>

\* intervals = forecaster.generate_confidence_intervals(forecast, historical_errors)
GenerateConfidenceIntervals ==
    /\ pc = "start"
    /\ intervals' = GenerateConfidenceIntervalsResult(forecast, historical_errors)
    /\ pc' = "done"
    /\ UNCHANGED <<files, processed_revenue, processed_kpi, fvars, kvars, dvars,
                   forecast, historical_errors, rvars, ovars, error>>

NextIntervals == GenerateConfidenceIntervals

SpecIntervals == InitIntervals /\ [][NextIntervals]_vars

(***************************************************************************)
(* ReportGenerator                                                         *)
(***************************************************************************)
\* the files load_processed_data reads, in the order it reads them
ReportInputs ==
    <<"processed_revenue.csv", "monthly_kpis.csv", "unit_kpis.csv", "advanced_kpis.csv",
      "performance_alerts.csv", "revenue_forecasts.csv">>

\* the file of a frame that holds no column at all; pd.read_csv raises
\* EmptyDataError on it.  monthly_kpis.csv and advanced_kpis.csv come from frames
\* that keep their columns when they have no row.
NoColumnsToParse(name) ==
    CASE name = "unit_kpis.csv" -> unit_kpis = <<>>
      [] name = "performance_alerts.csv" -> performance_alerts_csv.columns = {}
      [] name = "revenue_forecasts.csv" -> revenue_forecasts_csv.columns = {}
      [] OTHER -> FALSE

\* pd.read_csv(path): what it raises, or "none"
ReadCsv(name) ==
    IF name \notin files THEN "FileNotFoundError"
    ELSE IF NoColumnsToParse(name) THEN "EmptyDataError"
    ELSE "none"

\* the exception of the first read that raises, or "none"
LoadProcessedDataError ==
    LET failed == {i \in 1..Len(ReportInputs) : ReadCsv(ReportInputs[i]) # "none"}
    IN  IF failed = {} THEN "none"
        ELSE ReadCsv(ReportInputs[CHOOSE i \in failed : \A j \in failed : i <= j])

\* data = self.load_processed_data(); the tables of the KPI files are the ones
\* save_kpi_results wrote
ReportLoadProcessedData ==
    /\ pc = "r_start"
    /\ IF LoadProcessedDataError # "none"
       THEN Raise(LoadProcessedDataError) /\ UNCHANGED report_data
       ELSE /\ pc' = "r_loaded"
            /\ report_data' = [monthly_kpis |-> monthly_kpis,
                               unit_kpis |-> unit_kpis,
                               alerts |-> performance_alerts_csv.rows,
                               forecasts |-> revenue_forecasts_csv.rows]
            /\ UNCHANGED error
    /\ UNCHANGED <<files, processed_revenue, processed_kpi, fvars, kvars, dvars, cvars, ovars,
                   revenue_forecasts_csv, performance_alerts_csv, summary>>

\* Series.idxmax(): the first row that holds the greatest value, missing values
\* skipped
IdxMax(table, column) ==
    CHOOSE i \in 1..Len(table) :
        /\ ~IsNaN(table[i][column])
        /\ \A j \in 1..Len(table) :
              IsNaN(table[j][column]) \/ ~QLt(table[i][column], table[j][column])
        /\ \A j \in 1..(i - 1) :
              IsNaN(table[j][column]) \/ QLt(table[j][column], table[i][column])

AllMissing(table, column) == \A i \in 1..Len(table) : IsNaN(table[i][column])

CreateExecutiveSummary(data) ==
    LET latest_month == data.monthly_kpis[Len(data.monthly_kpis)]
        latest_unit_kpis == data.unit_kpis
    IN  [period |-> latest_month.date,
         total_revenue |-> latest_month.revenue,
         top_performing_unit |->
             latest_unit_kpis[IdxMax(latest_unit_kpis, "current_revenue")].business_unit,
         fastest_growing_unit |->
             latest_unit_kpis[IdxMax(latest_unit_kpis, "yoy_growth")].business_unit,
         total_forecast_revenue |->
             QSum(AsArray([i \in 1..Len(data.forecasts) |->
                      data.forecasts[i].ensemble_forecast])),
         alerts_count |-> Len(data.alerts),
         high_priority_alerts |->
             Len(SelectSeq(data.alerts, LAMBDA a : a.severity = "High"))]

\* summary = self.create_executive_summary(data): iloc[-1] of a table without
\* rows raises IndexError; idxmax of a column that holds only missing values
\* gives NaN with a warning or raises ValueError, depending on the pandas
\* version, and .loc[NaN] raises KeyError
ReportCreateExecutiveSummary ==
    /\ pc = "r_loaded"
    /\ IF report_data.monthly_kpis = <<>>
       THEN Raise("IndexError") /\ UNCHANGED summary
       ELSE IF AllMissing(report_data.unit_kpis, "yoy_growth")
       THEN /\ \E e \in {"KeyError", "ValueError"} : Raise(e)
            /\ UNCHANGED summary
       ELSE /\ pc' = "r_summary"
            /\ summary' = CreateExecutiveSummary(report_data)
            /\ UNCHANGED error
    /\ UNCHANGED <<files, processed_revenue, processed_kpi, fvars, kvars, dvars, cvars, ovars,
                   revenue_forecasts_csv, performance_alerts_csv, report_data>>

\* a step of generate_all_reports that writes files
ReportStep(from, to, written) ==
    /\ pc = from
    /\ pc' = to
    /\ files' = files \cup written
    /\ UNCHANGED <<processed_revenue, processed_kpi, fvars, kvars, dvars, xvars, error>>

\* self.generate_pdf_report(data, summary)
GeneratePdfReport == ReportStep("r_summary", "r_pdf", {"revenue_report.pdf"})

\* self.generate_excel_report(data, summary)
GenerateExcelReport == ReportStep("r_pdf", "r_excel", {"revenue_report.xlsx"})

\* self.create_powerbi_dataset(data)
CreatePowerbiDataset == ReportStep("r_excel", "r_powerbi", {"powerbi_connection.ps1"})

\* self.create_summary_dashboard(data, summary)
CreateSummaryDashboard == ReportStep("r_powerbi", "r_dashboard", {"executive_dashboard.png"})

\* self._create_report_index(summary); return True
CreateReportIndex == ReportStep("r_dashboard", "r_done", {"report_index.md"})

NextReports ==
    \/ ReportLoadProcessedData
    \/ ReportCreateExecutiveSummary
    \/ GeneratePdfReport
    \/ GenerateExcelReport
    \/ CreatePowerbiDataset
    \/ CreateSummaryDashboard
    \/ CreateReportIndex
(***************************************************************************)
(* SystemOrchestrator.run_full_pipeline                                    *)
(***************************************************************************)
\* n monthly rows of a unit in a raw file, the last one with revenue `last`
RawHistory(unit, n, last, kind) ==
    AsArray([i \in 1..n |->
        RawRow(<<DateAt(0, kind, i - 1)>>, <<unit>>,
               <<IF i = n THEN last ELSE MaxKpiRevenue>>, 2)])

\* raw revenue files: empty, or unit A with one row or the minimum history, its
\* last revenue level or lower, alone or with unit B at the minimum history
FullRevenueTables ==
    {<<>>} \cup
    {RawHistory(Units[1], na, last, "MS") \o RawHistory(Units[2], nb, MaxKpiRevenue, "MS") :
        na \in {1, MIN_HISTORICAL_PERIODS}, last \in {MaxKpiRevenue - 2, MaxKpiRevenue},
        nb \in {0, MIN_HISTORICAL_PERIODS}}

FullKpiTables == {<<Healthy(23)>>, <<Unhealthy(22), Unhealthy(23)>>}

\* what generate_sample_data.py writes: month-end dates, every unit with the same
\* number of rows, drawn values
GeneratedRevenueTables ==
    {RawHistory(Units[1], MIN_HISTORICAL_PERIODS, last, "ME")
         \o RawHistory(Units[2], MIN_HISTORICAL_PERIODS, MaxKpiRevenue, "ME") :
        last \in {MaxKpiRevenue - 2, MaxKpiRevenue}}

GeneratedKpiTables ==
    {<<[Healthy(23) EXCEPT !.date = MonthEnd(23)]>>,
     <<[Unhealthy(23) EXCEPT !.date = MonthEnd(23)]>>}

InitFull ==
    /\ pc = "main"
    /\ error = "none"
    /\ stage = "none"
    /\ success = "none"
    /\ skip_data_generation \in BOOLEAN
    /\ \/ /\ files = {"revenue_data.csv", "kpi_data.csv"}
          /\ raw_revenue \in FullRevenueTables
          /\ raw_kpi \in FullKpiTables
       \/ /\ files = {"revenue_data.csv"}
          /\ raw_revenue \in {RawHistory(Units[1], 1, MaxKpiRevenue, "MS")}
          /\ raw_kpi = <<>>
       \/ /\ files = {}
          /\ raw_revenue = <<>>
          /\ raw_kpi = <<>>
    /\ dp_revenue_df = <<>>
    /\ dp_kpi_df = <<>>
    /\ dp_processed = <<>>
    /\ aggregated_data = <<>>
    /\ processed_revenue = <<>>
    /\ processed_kpi = <<>>
    /\ NoForecastRun
    /\ NoKpiRun
    /\ NoIntervalCall
    /\ NoReportRun

\* what every step of run_full_pipeline itself leaves alone
FullUnchanged ==
    UNCHANGED <<processed_revenue, processed_kpi, fvars, kvars, dp_revenue_df, dp_kpi_df,
                dp_processed, aggregated_data, cvars, rvars, skip_data_generation>>

\* run_full_pipeline(skip_data_generation): step 1 is entered unless skipped
RunFullPipeline ==
    /\ pc = "main"
    /\ IF skip_data_generation
       THEN stage' = "process" /\ pc' = "dp_start"
       ELSE stage' = "generate" /\ pc' = "generate"
    /\ UNCHANGED <<files, raw_revenue, raw_kpi, success, error>>
    /\ FullUnchanged

\* self._generate_sample_data(): nothing when the script is not there; else the
\* script runs in a subprocess with check=True, so its failure raises
\* CalledProcessError; it writes the two files to ../data/raw of the working
\* directory, which is the raw data directory or another one
GenerateSampleData ==
    /\ pc = "generate"
    /\ \/ /\ Raise("CalledProcessError")
          /\ UNCHANGED <<files, raw_revenue, raw_kpi, stage>>
       \/ /\ pc' = "dp_start"
          /\ stage' = "process"
          /\ UNCHANGED error
          /\ \/ UNCHANGED <<files, raw_revenue, raw_kpi>>
             \/ /\ files' = files \cup {"revenue_data.csv", "kpi_data.csv"}
                /\ raw_revenue' \in GeneratedRevenueTables
                /\ raw_kpi' \in GeneratedKpiTables
    /\ UNCHANGED success
    /\ FullUnchanged

\* a step that starts the next stage when the stage before it has returned
StageReturned(from, returned, to, start) ==
    /\ stage = from
    /\ pc = returned
    /\ stage' = to
    /\ pc' = start
    /\ UNCHANGED <<files, raw_revenue, raw_kpi, success, error>>
    /\ FullUnchanged

\* a step that starts forecasting after processing returned or raised
ProcessingEnded ==
    /\ stage = "process"
    /\ pc \in {"dp_done", "raised"}
    /\ stage' = "forecast"
    /\ pc' = "start"
    /\ UNCHANGED <<files, raw_revenue, raw_kpi, success, error>>
    /\ FullUnchanged

\* self.data_processor.process_all_data() returned
ProcessingReturned == StageReturned("process", "dp_done", "forecast", "start")

\* self.forecaster.run_forecasting_pipeline() returned
ForecastingReturned == StageReturned("forecast", "done", "kpi", "start")

\* self.kpi_calculator.run_kpi_pipeline() returned
KpiReturned == StageReturned("kpi", "done", "report", "r_start")

\* self.report_generator.generate_all_reports() returned: return True
ReportsReturned ==
    /\ stage = "report"
    /\ pc = "r_done"
    /\ pc' = "returned"
    /\ success' = "True"
    /\ UNCHANGED <<files, raw_revenue, raw_kpi, stage, error>>
    /\ FullUnchanged

\* except Exception as e: logger.error(...); raise
PipelineFailed ==
    /\ stage # "none"
    /\ pc = "raised"
    /\ pc' = "failed"
    /\ success' = "raised"
    /\ UNCHANGED <<files, raw_revenue, raw_kpi, stage, error>>
    /\ FullUnchanged

\* the load steps of the two pipelines that start at the same label
ForecastLoadProcessedData == stage = "forecast" /\ LoadProcessedData

KpiLoadData == stage = "kpi" /\ LoadData

NextFull ==
    \/ RunFullPipeline
    \/ GenerateSampleData
    \/ LoadRevenueData
    \/ LoadKpiData
    \/ CalculateDerivedMetricsStep
    \/ AggregateDataStep
    \/ SaveProcessedRevenue
    \/ SaveAggregatedRevenue
    \/ SaveProcessedKpi
    \/ GenerateDataSummary
    \/ ProcessingReturned
    \/ ForecastLoadProcessedData
    \/ PrepareFeaturesStep
    \/ LinearTrendForecastStep
    \/ SeasonalDecompositionForecastStep
    \/ CreateForecastSummaryStep
    \/ SaveForecasts
    \/ CreateForecastPlots
    \/ GenerateForecastSummary
    \/ ForecastingReturned
    \/ KpiLoadData
    \/ CalculateRevenueKpisStep
    \/ CalculateBusinessUnitKpisStep
    \/ CalculateAdvancedKpisStep
    \/ IdentifyPerformanceAlertsStep
    \/ CreateKpiDashboardData
    \/ CreateKpiVisualizations
    \/ SaveKpiResults
    \/ KpiReturned
    \/ NextReports
    \/ ReportsReturned
    \/ PipelineFailed

SpecFull == InitFull /\ [][NextFull]_vars

(***************************************************************************)
(* Properties of the forecasting pipeline                                  *)
(***************************************************************************)
Ran(pcs) == pc \in pcs

AfterSummary == Ran({"summary", "saved", "plotted", "done"})

RowsOf(table, unit) == SelectRows(table, unit)

UnitSet == {Units[i] : i \in 1..Len(Units)}

\* number of historical rows of a unit in the loaded table
HistoryLen(unit) == Len(SelectRows(df, unit))

Eligible(unit) == HistoryLen(unit) >= MIN_HISTORICAL_PERIODS

\* C1: in every row of the forecast table, ensemble_forecast is the mean of the
\* row's linear_forecast and seasonal_forecast, i.e. twice the ensemble value is
\* their sum.
EnsembleIsMean ==
    \A i \in 1..Len(forecasts_df) :
        QMul(Q(2), forecasts_df[i].ensemble_forecast)
            = QAdd(forecasts_df[i].linear_forecast, forecasts_df[i].seasonal_forecast)

\* a finished run with a row whose two model forecasts differ
EnsembleIsMeanWitness ==
    /\ pc = "done"
    /\ \E i \in 1..Len(forecasts_df) :
          /\ forecasts_df[i].linear_forecast # forecasts_df[i].seasonal_forecast
          /\ forecasts_df[i].ensemble_forecast # forecasts_df[i].linear_forecast

\* C2: a unit with fewer than MIN_HISTORICAL_PERIODS rows is never a key of the
\* linear result or of the seasonal result, nor a business_unit of the forecast
\* table.
MinimumHistoryGate ==
    \A unit \in UnitSet :
        HistoryLen(unit) < MIN_HISTORICAL_PERIODS /\ pc # "start" =>
            /\ unit \notin Keys(linear_results)
            /\ unit \notin Keys(seasonal_results)
            /\ RowsOf(forecasts_df, unit) = <<>>

\* a finished run with a unit one row short of the threshold next to a forecast unit
MinimumHistoryGateWitness ==
    /\ pc = "done"
    /\ \E u, v \in UnitSet :
          /\ HistoryLen(u) = MIN_HISTORICAL_PERIODS - 1
          /\ RowsOf(forecasts_df, u) = <<>>
          /\ RowsOf(forecasts_df, v) # <<>>

\* C3: once the forecast table is built, every eligible unit has exactly
\* FORECAST_HORIZON_MONTHS rows, dated the consecutive month starts that begin
\* with the first day of the month after the unit's last historical date.
HorizonFromNextMonth ==
    AfterSummary =>
        \A unit \in UnitSet : Eligible(unit) =>
            LET rows == RowsOf(forecasts_df, unit)
                last_date == MaxDate(SelectRows(df, unit))
            IN  /\ Len(rows) = FORECAST_HORIZON_MONTHS
                /\ \A k \in 1..Len(rows) : rows[k].date = MonthStart(last_date.m + k)

\* C8: a run that finds its input file and whose fits succeed is never ended by
\* an exception, whatever the mix of units above and below the history threshold
\* (a failed fit, ValueError, is the subject of C19); when every unit is below
\* the threshold the run ends with an empty forecast table.
ShortHistoryIsNoError ==
    /\ pc = "raised" => error \in {"FileNotFoundError", "ValueError"}
    /\ pc = "done" /\ (\A unit \in UnitSet : ~Eligible(unit)) => forecasts_df = <<>>

\* C9: the k-th value of the linear forecast is the fitted line at index n-1+k,
\* n being the number of observations of the unit.
TrendForecastIndex ==
    \A i \in 1..Len(linear_results) :
        LET r == linear_results[i]
            n == Len(r.historical_fit)
        IN  \A k \in 1..Len(r.forecast) : r.forecast[k] = Predict(r.model, n - 1 + k)

\* residual of the fitted line at row i of the unit's series
Residual(r, unit_data, i) == QSub(Q(unit_data[i].revenue), r.historical_fit[i])

\* C10: the training rows are the first floor(0.8 n) time indices and the
\* validation rows the remaining ones, contiguous and in order, both non-empty;
\* the line is the least-squares line of the training rows alone (its residuals
\* over those rows sum to zero and are orthogonal to the time index), and
\* historical_fit has one value per row.
TrainValidationSplit ==
    \A i \in 1..Len(linear_results) :
        LET r == linear_results[i]
            unit_data == SelectRows(df_features, r.unit)
            n == Len(unit_data)
            s == Len(r.X_train)
        IN  /\ n >= MIN_HISTORICAL_PERIODS
            /\ 5 * s <= 4 * n /\ 4 * n < 5 * (s + 1)
            /\ r.X_train \o r.X_test = [j \in 1..n |-> j - 1]
            /\ r.X_train # <<>> /\ r.X_test # <<>>
            /\ Len(r.historical_fit) = n
            /\ QSum(AsArray([j \in 1..s |-> Residual(r, unit_data, j)])) = Zero
            /\ QSum(AsArray([j \in 1..s |-> QMul(Q(j - 1), Residual(r, unit_data, j))])) = Zero

\* a unit whose series has a trend, so that the fit on the training rows differs
\* from a fit on all rows, with a validation residual that is not zero
TrainValidationSplitWitness ==
    /\ pc = "done"
    /\ \E i \in 1..Len(linear_results) :
          LET r == linear_results[i]
              unit_data == SelectRows(df_features, r.unit)
          IN  /\ r.model.coef # Zero
              /\ \E j \in (Len(r.X_train) + 1)..Len(unit_data) :
                    Residual(r, unit_data, j) # Zero

\* a value that is present and not below zero
NonNegative(x) == ~IsNaN(x) /\ ~QLt(x, Zero)

\* C11: every linear_forecast, seasonal_forecast and ensemble_forecast of the
\* forecast table is present and not negative (the historical revenue of every
\* input table is non-negative).
ForecastsNonNegative ==
    \A i \in 1..Len(forecasts_df) :
        /\ NonNegative(forecasts_df[i].linear_forecast)
        /\ NonNegative(forecasts_df[i].seasonal_forecast)
        /\ NonNegative(forecasts_df[i].ensemble_forecast)

\* the seasonal fit of a unit of the feature table raises
SeasonalFitFails(unit) ==
    FitRaises(Deseasonalized(SortValues(SelectRows(df_features, unit))))

\* C19: an error in the fit of one unit leaves the other units their results:
\* once the linear forecaster has run every eligible unit is a key of its result,
\* and once the seasonal forecaster has run, or has met a unit whose fit raises,
\* every eligible unit whose own fit does not raise is a key of its result.
UnitErrorsAreIsolated ==
    \A unit \in UnitSet :
        Eligible(unit) =>
            /\ Ran({"linear", "seasonal", "summary", "saved", "plotted", "done"})
                   => unit \in Keys(linear_results)
            /\ (Ran({"seasonal", "summary", "saved", "plotted", "done"})
                \/ error = "ValueError") /\ ~SeasonalFitFails(unit)
                   => unit \in Keys(seasonal_results)

(***************************************************************************)
(* Properties of create_forecast_summary called on its own                 *)
(***************************************************************************)
\* the position of a date in the forecast dates of a result
DatePositions(result, date) ==
    {k \in 1..Len(result.forecast_dates) : result.forecast_dates[k] = date}

\* C4: the units of the forecast table are exactly the units that are keys of both
\* results; every forecast date of such a unit has exactly one row, and the row
\* holds the linear value and the seasonal value that the two results give for
\* the row's unit at the row's date.
SummaryJoinsBoth ==
    pc = "summary" =>
        /\ {forecasts_df[i].business_unit : i \in 1..Len(forecasts_df)}
               = Keys(linear_results) \cap Keys(seasonal_results)
        /\ \A unit \in Keys(linear_results) \cap Keys(seasonal_results) :
              \A date \in {Get(linear_results, unit).forecast_dates[k] :
                              k \in 1..FORECAST_HORIZON_MONTHS} :
                  Cardinality({i \in 1..Len(forecasts_df) :
                      /\ forecasts_df[i].business_unit = unit
                      /\ forecasts_df[i].date = date}) = 1
        /\ \A i \in 1..Len(forecasts_df) :
              LET row == forecasts_df[i]
                  linear == Get(linear_results, row.business_unit)
                  seasonal == Get(seasonal_results, row.business_unit)
              IN  /\ \E k \in DatePositions(linear, row.date) :
                        row.linear_forecast = linear.forecast[k]
                  /\ \E k \in DatePositions(seasonal, row.date) :
                        row.seasonal_forecast = seasonal.forecast[k]

\* a unit that only the linear result holds has no row, next to a unit of both
\* results whose seasonal forecast changes over the horizon
SummaryJoinsBothWitness ==
    /\ pc = "summary"
    /\ \E u \in Keys(linear_results) \ Keys(seasonal_results) :
          RowsOf(forecasts_df, u) = <<>>
    /\ \E v \in Keys(linear_results) \cap Keys(seasonal_results) :
          LET rows == RowsOf(forecasts_df, v)
          IN  /\ Len(rows) = FORECAST_HORIZON_MONTHS
              /\ rows[1].seasonal_forecast # rows[Len(rows)].seasonal_forecast

(***************************************************************************)
(* Properties of the KPI pipeline                                          *)
(***************************************************************************)
AfterAlerts == Ran({"alerts", "dashboard", "charts", "done"})

AfterUnitKpis == Ran({"units", "advanced", "alerts", "dashboard", "charts", "done"})

\* number of alerts of a type for a unit
AlertCount(type, unit, severity) ==
    Cardinality({i \in 1..Len(alerts) : alerts[i] = Alert(type, unit, severity)})

Once(condition) == IF condition THEN 1 ELSE 0

UnitAlertTypes == {"Revenue Decline", "Monthly Revenue Drop", "Low Profit Margin"}

CompanyAlertTypes == {"Low Retention Rate", "High Churn Rate", "Low CLV/CAC Ratio"}

\* C5: for every row of the per-unit table there is exactly one Revenue
\* Decline/High alert of the unit iff yoy_growth < 0, exactly one Monthly Revenue
\* Drop/Medium alert iff mom_growth < -1/10, exactly one Low Profit Margin/Medium
\* alert iff profit_margin < 1/5, none at the threshold itself, and every alert
\* that names a unit is one of these.
UnitAlertsFollowThresholds ==
    AfterAlerts =>
        /\ \A i \in 1..Len(unit_kpis) :
              LET unit == unit_kpis[i]
              IN  /\ AlertCount("Revenue Decline", unit.business_unit, "High")
                         = Once(QLt(unit.yoy_growth, Zero))
                  /\ AlertCount("Monthly Revenue Drop", unit.business_unit, "Medium")
                         = Once(QLt(unit.mom_growth, <<-1, 10>>))
                  /\ AlertCount("Low Profit Margin", unit.business_unit, "Medium")
                         = Once(QLt(unit.profit_margin, <<1, 5>>))
                  /\ unit.mom_growth = <<-1, 10>> =>
                         AlertCount("Monthly Revenue Drop", unit.business_unit, "Medium") = 0
                  /\ unit.yoy_growth = Zero =>
                         AlertCount("Revenue Decline", unit.business_unit, "High") = 0
                  /\ unit.profit_margin = <<1, 5>> =>
                         AlertCount("Low Profit Margin", unit.business_unit, "Medium") = 0
        /\ \A j \in 1..Len(alerts) :
              alerts[j].business_unit # "All" =>
                  /\ alerts[j].type \in UnitAlertTypes
                  /\ \E i \in 1..Len(unit_kpis) :
                        unit_kpis[i].business_unit = alerts[j].business_unit
                  /\ alerts[j].severity
                         = IF alerts[j].type = "Revenue Decline" THEN "High" ELSE "Medium"

\* a unit exactly at the month-over-month threshold without the alert, next to a
\* unit that has a Low Profit Margin alert
UnitAlertsFollowThresholdsWitness ==
    /\ pc = "done"
    /\ \E i, j \in 1..Len(unit_kpis) :
          /\ unit_kpis[i].mom_growth = <<-1, 10>>
          /\ unit_kpis[i].yoy_growth = <<-1, 10>>
          /\ AlertCount("Monthly Revenue Drop", unit_kpis[i].business_unit, "Medium") = 0
          /\ AlertCount("Revenue Decline", unit_kpis[i].business_unit, "High") = 1
          /\ i # j
          /\ AlertCount("Low Profit Margin", unit_kpis[j].business_unit, "Medium") = 1

\* the row of the advanced table with the greatest date
MostRecent(advanced) ==
    advanced[CHOOSE i \in 1..Len(advanced) :
                 \A j \in 1..Len(advanced) : DateLe(advanced[j].date, advanced[i].date)]

\* C6: the alerts that name 'All' are those of the row of the advanced table
\* with the greatest date: one Low Retention Rate/High iff its retention_rate <
\* 9/10, one High Churn Rate/High iff its churn_rate > 1/20, one Low CLV/CAC
\* Ratio/Medium iff its clv_to_cac_ratio < 3, and no other.
CompanyAlertsFromLatestRow ==
    AfterAlerts =>
        LET latest == MostRecent(advanced_kpis)
        IN  /\ AlertCount("Low Retention Rate", "All", "High")
                   = Once(QLt(latest.retention_rate, <<9, 10>>))
            /\ AlertCount("High Churn Rate", "All", "High")
                   = Once(QGt(latest.churn_rate, <<1, 20>>))
            /\ AlertCount("Low CLV/CAC Ratio", "All", "Medium")
                   = Once(QLt(latest.clv_to_cac_ratio, Q(3)))
            /\ \A j \in 1..Len(alerts) :
                  alerts[j].business_unit = "All" =>
                      /\ alerts[j].type \in CompanyAlertTypes
                      /\ alerts[j].severity
                             = IF alerts[j].type = "Low CLV/CAC Ratio" THEN "Medium" ELSE "High"

\* an earlier row is below every threshold and the latest row is healthy: no
\* company-wide alert
CompanyAlertsFromLatestRowWitness ==
    /\ pc = "done"
    /\ Len(advanced_kpis) > 1
    /\ \E i \in 1..(Len(advanced_kpis) - 1) :
          /\ QLt(advanced_kpis[i].retention_rate, <<9, 10>>)
          /\ QGt(advanced_kpis[i].churn_rate, <<1, 20>>)
          /\ QLt(advanced_kpis[i].clv_to_cac_ratio, Q(3))
    /\ MostRecent(advanced_kpis).retention_rate = <<19, 20>>
    /\ \A j \in 1..Len(alerts) : alerts[j].business_unit # "All"

\* C7: wherever the divisor of a ratio is zero the ratio is zero: in the per-unit
\* table mom_growth (previous month's revenue), revenue_per_customer and
\* marketing_roi; in the monthly table revenue_per_customer,
\* customers_per_salesperson, marketing_roi and marketing_spend_ratio.
ZeroDivisorYieldsZero ==
    /\ AfterUnitKpis =>
          \A i \in 1..Len(unit_kpis) :
              LET unit == unit_kpis[i]
              IN  /\ unit.previous_month_revenue = Zero => unit.mom_growth = Zero
                  /\ unit.customer_count = Zero => unit.revenue_per_customer = Zero
    /\ pc # "start" /\ pc # "loaded" =>
          \A i \in 1..Len(monthly_kpis) :
              LET month == monthly_kpis[i]
              IN  /\ month.customer_count = Zero => month.revenue_per_customer = Zero
                  /\ month.sales_team_size = Zero => month.customers_per_salesperson = Zero
                  /\ month.marketing_spend = Zero => month.marketing_roi = Zero
                  /\ month.revenue = Zero => month.marketing_spend_ratio = Zero

(***************************************************************************)
(* Properties of the per-unit and of the monthly KPI tables                *)
(***************************************************************************)
\* the observations of one unit in the table the KPI pipeline loaded
Observations(unit) ==
    {revenue_df[j] : j \in {k \in 1..Len(revenue_df) : revenue_df[k].business_unit = unit}}

\* the observation of a set with the greatest date
Newest(obs) == CHOOSE r \in obs : \A s \in obs : DateLe(s.date, r.date)

\* (latest - reference) / reference
RelativeChange(latest, reference) ==
    QSub(QDiv(Q(latest), Q(reference)), Q(1))

\* C14: in a unit's row the previous month is the observation one step before
\* the latest one in date order; a unit with a single observation has the
\* latest observation as its previous month, and its mom_growth is 0.
PriorMonthOneStepBack ==
    AfterUnitKpis =>
        \A i \in 1..Len(unit_kpis) :
            LET obs == Observations(unit_kpis[i].business_unit)
                before == obs \ {Newest(obs)}
            IN  IF before = {}
                THEN /\ unit_kpis[i].previous_month_revenue = Q(Newest(obs).revenue)
                     /\ unit_kpis[i].mom_growth = Zero
                ELSE unit_kpis[i].previous_month_revenue = Q(Newest(before).revenue)

\* C15: yoy_growth of a unit's row is the relative change against the nearest
\* of the unit's observations that are 300 days or more before the latest one;
\* a unit with no such observation is compared with its latest observation,
\* and its yoy_growth is 0.
YearAgoReference ==
    AfterUnitKpis =>
        \A i \in 1..Len(unit_kpis) :
            LET obs == Observations(unit_kpis[i].business_unit)
                latest == Newest(obs)
                year_ago == {r \in obs : DayNumber(r.date) <= DayNumber(latest.date) - 300}
            IN  IF year_ago = {}
                THEN unit_kpis[i].yoy_growth = Zero
                ELSE unit_kpis[i].yoy_growth
                         = RelativeChange(latest.revenue, Newest(year_ago).revenue)

\* C16: the per-unit table has exactly one row for every unit of the loaded
\* table, taken from the unit's observation with the greatest date, however few
\* observations the unit has.
OneRowPerUnit ==
    AfterUnitKpis =>
        LET units == {revenue_df[j].business_unit : j \in 1..Len(revenue_df)}
        IN  /\ {unit_kpis[i].business_unit : i \in 1..Len(unit_kpis)} = units
            /\ Len(unit_kpis) = Cardinality(units)
            /\ \A i \in 1..Len(unit_kpis) :
                  LET latest == Newest(Observations(unit_kpis[i].business_unit))
                  IN  /\ unit_kpis[i].latest_month = latest.date
                      /\ unit_kpis[i].current_revenue = Q(latest.revenue)
                      /\ unit_kpis[i].customer_count = Q(latest.customer_count)
                      /\ unit_kpis[i].profit_margin = latest.profit_margin

\* a unit of three observations and a unit of one, far below the 24 of the
\* forecasts: each has its row, and the first takes its revenue from December
OneRowPerUnitWitness ==
    /\ pc = "units"
    /\ Len(revenue_df) = 4
    /\ Len(unit_kpis) = 2
    /\ Cardinality(Observations(Units[1])) = 3
    /\ Cardinality(Observations(Units[2])) = 1
    /\ revenue_df[3].revenue # revenue_df[2].revenue
    /\ unit_kpis[1].current_revenue = Q(revenue_df[3].revenue)

AfterMonthlyKpis ==
    Ran({"monthly", "units", "advanced", "alerts", "dashboard", "charts", "done"})

\* the rows of the loaded table of one date
RowsAt(date) == {j \in 1..Len(revenue_df) : revenue_df[j].date = date}

RECURSIVE Total(_, _)
\* the sum of value[j] over the indices j of idx
Total(idx, value) ==
    IF idx = {} THEN Zero
    ELSE LET j == CHOOSE k \in idx : TRUE
         IN  QAdd(value[j], Total(idx \ {j}, value))

\* (value - earlier) / earlier of the revenue of two rows of the monthly table,
\* missing when the earlier row is not there
ChangeAgainst(i, back) ==
    IF i - back < 1 THEN NaN
    ELSE QDiv(QSub(monthly_kpis[i].revenue, monthly_kpis[i - back].revenue),
              monthly_kpis[i - back].revenue)

\* C17: the monthly table has one row for every date of the loaded table, in
\* ascending order of date; revenue, customer_count, marketing_spend and
\* sales_team_size are the sums over the rows of that date and profit_margin is
\* their mean; revenue_mom_growth and revenue_yoy_growth are the relative change
\* against the row 1 and 12 positions earlier, missing when there is no such row.
MonthlyTableAggregates ==
    AfterMonthlyKpis =>
        /\ {monthly_kpis[i].date : i \in 1..Len(monthly_kpis)} = DateSet(revenue_df)
        /\ Len(monthly_kpis) = Cardinality(DateSet(revenue_df))
        /\ \A i \in 1..Len(monthly_kpis) : \A j \in (i + 1)..Len(monthly_kpis) :
              DayNumber(monthly_kpis[i].date) < DayNumber(monthly_kpis[j].date)
        /\ \A i \in 1..Len(monthly_kpis) :
              LET month == monthly_kpis[i]
                  g == RowsAt(month.date)
              IN  /\ month.revenue = Total(g, [j \in g |-> Q(revenue_df[j].revenue)])
                  /\ month.customer_count = Total(g, [j \in g |-> Q(revenue_df[j].customer_count)])
                  /\ month.marketing_spend = Total(g, [j \in g |-> Q(revenue_df[j].marketing_spend)])
                  /\ month.sales_team_size = Total(g, [j \in g |-> Q(revenue_df[j].sales_team_size)])
                  /\ month.profit_margin
                         = QDiv(Total(g, [j \in g |-> revenue_df[j].profit_margin]),
                                Q(Cardinality(g)))
                  /\ month.revenue_mom_growth = ChangeAgainst(i, 1)
                  /\ month.revenue_yoy_growth = ChangeAgainst(i, 12)

\* thirteen dates with February 2022 as the last and no January 2022, two units
\* in one of the months: the last row has a year-over-year growth, against
\* January 2021, and the twelve rows before it have none
MonthlyTableAggregatesWitness ==
    /\ pc = "monthly"
    /\ Len(monthly_kpis) = 13
    /\ monthly_kpis[13].date = MonthStart(13)
    /\ monthly_kpis[1].date = MonthStart(0)
    /\ ~IsNaN(monthly_kpis[13].revenue_yoy_growth)
    /\ monthly_kpis[13].revenue_yoy_growth # monthly_kpis[13].revenue_mom_growth
    /\ IsNaN(monthly_kpis[12].revenue_yoy_growth)
    /\ \E i \in 1..13 : Cardinality(RowsAt(monthly_kpis[i].date)) = 2

(***************************************************************************)
(* Properties of the data processing followed by the KPI pipeline          *)
(***************************************************************************)
\* C12: in every row of the monthly table and of the per-unit table, revenue
\* and customer_count are not negative, whatever the raw files hold.
KpiRowsNonNegative ==
    /\ \A i \in 1..Len(monthly_kpis) :
          /\ ~QLt(monthly_kpis[i].revenue, Zero)
          /\ ~QLt(monthly_kpis[i].customer_count, Zero)
    /\ \A i \in 1..Len(unit_kpis) :
          /\ ~QLt(unit_kpis[i].current_revenue, Zero)
          /\ ~QLt(unit_kpis[i].customer_count, Zero)

\* the revenue file was found and read
RevenueLoaded == pc # "dp_start" /\ "revenue_data.csv" \in files

\* a raw row with a revenue that is there and not negative, a date and a unit
Clean(r) ==
    /\ r.revenue # <<>> /\ r.revenue[1] >= 0
    /\ r.date # <<>>
    /\ r.business_unit # <<>>

\* C13: the validated table holds exactly the rows of the raw file whose revenue
\* is present and not negative and whose date and business unit are present,
\* each as it was read; and no row of processed_revenue.csv has a negative
\* revenue.
ValidationKeepsCleanRows ==
    /\ RevenueLoaded =>
          /\ \A i \in 1..Len(dp_revenue_df) :
                /\ Clean(dp_revenue_df[i])
                /\ \E j \in 1..Len(raw_revenue) : raw_revenue[j] = dp_revenue_df[i]
          /\ \A j \in 1..Len(raw_revenue) :
                Clean(raw_revenue[j]) =>
                    \E i \in 1..Len(dp_revenue_df) : dp_revenue_df[i] = raw_revenue[j]
          /\ Len(dp_revenue_df)
                 = Cardinality({j \in 1..Len(raw_revenue) : Clean(raw_revenue[j])})
    /\ "processed_revenue.csv" \in files =>
          \A i \in 1..Len(processed_revenue) : processed_revenue[i].revenue >= 0

\* a file with a negative revenue, with a missing cell and with a clean row: the
\* clean row is in processed_revenue.csv and the other two are not
ValidationKeepsCleanRowsWitness ==
    /\ pc = "dp_done"
    /\ \E j \in 1..Len(raw_revenue) :
          raw_revenue[j].revenue # <<>> /\ raw_revenue[j].revenue[1] < 0
    /\ \E j \in 1..Len(raw_revenue) :
          \/ raw_revenue[j].date = <<>>
          \/ raw_revenue[j].business_unit = <<>>
          \/ raw_revenue[j].revenue = <<>>
    /\ Len(processed_revenue) = 1
    /\ Len(raw_revenue) = 3

(***************************************************************************)
(* Properties of repeated calls of the two pipelines                       *)
(***************************************************************************)
ForecastOutputs == {"revenue_forecasts.csv", "revenue_forecasts.png", "forecast_summary.txt"}

KpiOutputs ==
    {"monthly_kpis.csv", "unit_kpis.csv", "advanced_kpis.csv", "performance_alerts.csv",
     "kpi_summary.txt", "kpi_dashboard.png"}

\* C18: while processed_revenue.csv is missing no run gets past its load step, a
\* run that ended raised FileNotFoundError, and none of the forecast, KPI or
\* alert files is written; while processed_kpi.csv is missing the KPI run does
\* not get past its load step and none of the KPI or alert files is written.
MissingInputIsFatal ==
    /\ "processed_revenue.csv" \notin files =>
          /\ pc \in {"start", "raised"}
          /\ pc = "raised" => error = "FileNotFoundError"
          /\ files \cap (ForecastOutputs \cup KpiOutputs) = {}
    /\ "processed_kpi.csv" \notin files =>
          /\ ~Ran({"loaded", "monthly", "units", "advanced", "alerts", "dashboard", "charts"})
          /\ files \cap KpiOutputs = {}

\* the KPI file is missing: the forecasting run has written its forecasts, and
\* the KPI run that followed has raised at its load step
MissingInputIsFatalWitness ==
    /\ pc = "raised"
    /\ error = "FileNotFoundError"
    /\ "processed_revenue.csv" \in files
    /\ "processed_kpi.csv" \notin files
    /\ "revenue_forecasts.csv" \in files
    /\ revenue_df = <<>>

\* an earlier forecasting run got as far as saving its table, an earlier KPI run
\* as far as saving its files
ForecastRanBefore == "revenue_forecasts.csv" \in files

KpiRanBefore == "kpi_summary.txt" \in files

MeanRevenue(idx) ==
    QDiv(Total(idx, [j \in idx |-> Q(df_features[j].revenue)]), Q(Cardinality(idx)))

\* C21: the factor of a calendar month is the mean revenue of the unit's rows of
\* that month over the unit's mean revenue, for the months the unit has rows
\* in; the k-th forecast is the fitted trend at index n - 1 + k times the factor
\* of the month of the k-th forecast date, or times 1 when the month has no
\* factor; with every factor 1 the forecast is the trend. (Stated of the result
\* as the seasonal forecaster returns it.)
SeasonalForecastFormula ==
    pc = "seasonal" =>
        \A i \in 1..Len(seasonal_results) :
            LET r == seasonal_results[i]
                rows == {j \in 1..Len(df_features) : df_features[j].business_unit = r.unit}
                months == {df_features[j].month : j \in rows}
                n == Cardinality(rows)
                trend(k) == Predict(r.model, n - 1 + k)
            IN  /\ DOMAIN r.seasonal_factors = months
                /\ \A mo \in months :
                      r.seasonal_factors[mo]
                          = QDiv(MeanRevenue({j \in rows : df_features[j].month = mo}),
                                 MeanRevenue(rows))
                /\ \A k \in 1..Len(r.forecast) :
                      LET mo == MonthOf(r.forecast_dates[k])
                      IN  r.forecast[k]
                              = QMul(trend(k), IF mo \in months THEN r.seasonal_factors[mo]
                                               ELSE Q(1))
                /\ (\A mo \in months : r.seasonal_factors[mo] = Q(1)) =>
                      \A k \in 1..Len(r.forecast) : r.forecast[k] = trend(k)

\* a unit with no row in December and factors that differ: the forecast of a
\* December is the trend itself, the forecast of another month is not
SeasonalForecastFormulaWitness ==
    /\ pc = "seasonal"
    /\ \E i \in 1..Len(seasonal_results) :
          LET r == seasonal_results[i]
          IN  /\ 12 \notin DOMAIN r.seasonal_factors
              /\ \E mo \in DOMAIN r.seasonal_factors : r.seasonal_factors[mo] # Q(1)
              /\ \E k \in 1..Len(r.forecast) :
                    /\ MonthOf(r.forecast_dates[k]) = 12
                    /\ r.forecast[k] = Predict(r.model, MIN_HISTORICAL_PERIODS - 1 + k)
                    /\ r.forecast[k] # Zero

(***************************************************************************)
(* Properties of generate_confidence_intervals                             *)
(***************************************************************************)
\* the mean of the squared distances of the historical errors to their mean
ErrorVariance ==
    LET n == Len(historical_errors)
        mean == QDiv(QSum(historical_errors), Q(n))
    IN  QDiv(QSum([i \in 1..n |-> QMul(QSub(historical_errors[i], mean),
                                        QSub(historical_errors[i], mean))]), Q(n))

\* the distance z * std(errors) is the one number m >= 0 with m * m = z * z * variance
IsMargin(m, z) ==
    /\ ~QLt(m, Zero)
    /\ QMul(m, m) = QMul(QMul(z, z), ErrorVariance)

NoMoreThanTotalDecline(growth) == IsNaN(growth) \/ ~QLt(growth, Q(-1))

\* C23: every growth value of the monthly table that is not missing
\* (revenue_mom_growth, revenue_yoy_growth, customer_mom_growth) is at least
\* -1, for the rows the validation let through.
GrowthAtLeastMinusOne ==
    \A i \in 1..Len(monthly_kpis) :
        /\ NoMoreThanTotalDecline(monthly_kpis[i].revenue_mom_growth)
        /\ NoMoreThanTotalDecline(monthly_kpis[i].revenue_yoy_growth)
        /\ NoMoreThanTotalDecline(monthly_kpis[i].customer_mom_growth)

\* the same of the two revenue columns only
RevenueGrowthAtLeastMinusOne ==
    \A i \in 1..Len(monthly_kpis) :
        /\ NoMoreThanTotalDecline(monthly_kpis[i].revenue_mom_growth)
        /\ NoMoreThanTotalDecline(monthly_kpis[i].revenue_yoy_growth)

(***************************************************************************)
(* Properties of the lag features                                          *)
(***************************************************************************)
\* the revenue values of the rows of a unit in the feature table
RevenuesOf(unit) ==
    {Q(df_features[j].revenue) :
        j \in {j \in 1..Len(df_features) : df_features[j].business_unit = unit}}

\* C24: after prepare_features of a table with several units, revenue_lag1,
\* revenue_lag3 and revenue_lag12 of every row are revenue values of rows of
\* that row's own unit, the first rows of each unit included.
LagsFromOwnUnit ==
    (pc = "features" /\ \E i, j \in 1..Len(df_features) :
                              df_features[i].business_unit # df_features[j].business_unit) =>
        \A i \in 1..Len(df_features) :
            LET own == RevenuesOf(df_features[i].business_unit)
            IN  /\ df_features[i].revenue_lag1 \in own
                /\ df_features[i].revenue_lag3 \in own
                /\ df_features[i].revenue_lag12 \in own

(***************************************************************************)
(* Properties of the advanced KPI table                                    *)
(***************************************************************************)
AfterAdvancedKpis == Ran({"advanced", "alerts", "dashboard", "charts", "done"})

\* the table a column of the advanced KPI table is joined from: the monthly
\* sums of the revenue table, or the KPI series
SourceOf(column) ==
    IF column \in {"revenue", "customer_count", "marketing_spend"} THEN monthly_kpis
    ELSE kpi_df

\* the rows of the advanced table up to row i at whose date the source of the
\* column has a row
RowsWithValue(column, i) ==
    {j \in 1..i : \E k \in 1..Len(SourceOf(column)) :
        SourceOf(column)[k].date = advanced_kpis[j].date}

\* the value the source of the column has at the date of row j
SourceValue(column, j) ==
    LET source == SourceOf(column)
    IN  source[CHOOSE k \in 1..Len(source) : source[k].date = advanced_kpis[j].date][column]

JoinedColumns ==
    {"revenue", "customer_count", "marketing_spend",
     "customer_acquisition_cost", "customer_lifetime_value", "churn_rate",
     "retention_rate", "net_promoter_score", "conversion_rate", "market_share"}

\* C25: the advanced KPI table has one row for every date of the revenue table
\* or of the KPI series, in ascending order of date; a joined column holds at
\* each row the value of its source at the latest row, up to that one, at whose
\* date the source has a row, and is missing when there is no such row; the
\* step does not raise.
AdvancedTableJoinsAndFills ==
    AfterAdvancedKpis =>
        /\ {advanced_kpis[i].date : i \in 1..Len(advanced_kpis)}
               = {revenue_df[i].date : i \in 1..Len(revenue_df)}
                 \cup {kpi_df[i].date : i \in 1..Len(kpi_df)}
        /\ \A i \in 1..Len(advanced_kpis) - 1 :
              /\ DateLe(advanced_kpis[i].date, advanced_kpis[i + 1].date)
              /\ advanced_kpis[i].date # advanced_kpis[i + 1].date
        /\ \A i \in 1..Len(advanced_kpis) : \A column \in JoinedColumns :
              LET with == RowsWithValue(column, i)
              IN  IF with = {} THEN IsNaN(advanced_kpis[i][column])
                  ELSE advanced_kpis[i][column]
                           = SourceValue(column, CHOOSE j \in with : \A k \in with : k <= j)

\* a revenue table and a KPI series of different dates: a row of the table
\* holds a revenue carried down from the row above, and a row holds no churn
\* rate, the KPI series starting later
AdvancedTableJoinsAndFillsWitness ==
    /\ AfterAdvancedKpis
    /\ error = "none"
    /\ \E i \in 2..Len(advanced_kpis) :
          /\ i \notin RowsWithValue("revenue", i)
          /\ ~IsNaN(advanced_kpis[i].revenue)
          /\ advanced_kpis[i].revenue = advanced_kpis[i - 1].revenue
    /\ \E i \in 1..Len(advanced_kpis) : IsNaN(advanced_kpis[i].churn_rate)

(***************************************************************************)
(* Properties of the two forecasters taken together                        *)
(***************************************************************************)
AfterSeasonal == Ran({"seasonal", "summary", "saved", "plotted", "done"})

\* C26: for every unit that has both results and every forecast date, the
\* time index at which the linear forecaster evaluates its fitted line is the
\* one at which the seasonal forecaster evaluates its own, both counted from 0
\* at the unit's first observation.
SameTimeIndex ==
    AfterSeasonal =>
        \A unit \in Keys(linear_results) \cap Keys(seasonal_results) :
            LET linear == Get(linear_results, unit)
                seasonal == Get(seasonal_results, unit)
            IN  \A k \in 1..Len(linear.forecast_dates) :
                    /\ seasonal.forecast_dates[k] = linear.forecast_dates[k]
                    /\ seasonal.future_X[k] = linear.future_X[k]

\* the forecast dates of the two results of a unit are the same
SameForecastDates ==
    AfterSeasonal =>
        \A unit \in Keys(linear_results) \cap Keys(seasonal_results) :
            Get(seasonal_results, unit).forecast_dates = Get(linear_results, unit).forecast_dates

(***************************************************************************)
(* Properties of the report generation after the KPI pipeline              *)
(***************************************************************************)
\* generate_all_reports has made its summary
AfterExecutiveSummary ==
    Ran({"r_summary", "r_pdf", "r_excel", "r_powerbi", "r_dashboard", "r_done", "returned"})

\* C27: when the KPI pipeline has found no alert, generate_all_reports run
\* after it does not raise: the alert file loads as a table without rows and
\* the summary the reports are made from counts 0 alerts.
ZeroAlertsReportsComplete ==
    (stage = "report" /\ alerts = <<>>) =>
        /\ pc \notin {"raised", "failed"}
        /\ Ran({"r_loaded"}) \/ AfterExecutiveSummary => report_data.alerts = <<>>
        /\ AfterExecutiveSummary => summary.alerts_count = 0

\* with no alert the report generation gets past its load step
ZeroAlertsLoad ==
    (stage = "report" /\ alerts = <<>>) => pc \in {"r_start", "raised", "failed"}

\* with an alert the report generation raises only in runs without any forecast
AlertsReportsComplete ==
    (stage = "report" /\ alerts # <<>> /\ forecasts_df # <<>>) =>
        pc \notin {"raised", "failed"}

(***************************************************************************)
(* Properties of run_full_pipeline                                         *)
(***************************************************************************)
\* the stage that may follow a stage
NextStage ==
    {<<"none", "generate">>, <<"none", "process">>, <<"generate", "process">>,
     <<"process", "forecast">>, <<"forecast", "kpi">>, <<"kpi", "report">>}

\* the last thing a stage writes before it returns
LastOutput(s) ==
    CASE s = "process" -> {"data_summary.txt"}
      [] s = "forecast" -> {"revenue_forecasts.csv", "revenue_forecasts.png"}
      [] s = "kpi" -> {"kpi_summary.txt"}
      [] s = "report" -> {"report_index.md"}
      [] OTHER -> {}

\* C28: run_full_pipeline runs data generation (unless skipped), data
\* processing, forecasting, KPI calculation and report generation in this
\* order; a stage starts only when the stage before it has returned, having
\* written its last output, and the state of a stage changes only while that
\* stage runs; once a stage has raised, the only step left is the exception
\* leaving run_full_pipeline, so no later stage runs; True is returned only
\* with all the stages returned.
StagesRunInOrder ==
    [][/\ stage' # stage =>
             /\ <<stage, stage'>> \in NextStage
             /\ stage' = "generate" => ~skip_data_generation
             /\ (stage = "none" /\ stage' = "process") => skip_data_generation
             /\ pc # "raised" /\ error = "none"
             /\ LastOutput(stage) \subseteq files
       /\ <<dp_revenue_df, dp_kpi_df, dp_processed, aggregated_data>>'
              # <<dp_revenue_df, dp_kpi_df, dp_processed, aggregated_data>>
             => stage = "process" /\ stage' = "process"
       /\ <<raw_revenue, raw_kpi>>' # <<raw_revenue, raw_kpi>> => stage = "generate"
       /\ fvars' # fvars => stage = "forecast" /\ stage' = "forecast"
       /\ kvars' # kvars => stage = "kpi" /\ stage' = "kpi"
       /\ <<report_data, summary>>' # <<report_data, summary>>
             => stage = "report" /\ stage' = "report"
       /\ pc = "raised" =>
             /\ pc' = "failed"
             /\ success' = "raised"
             /\ UNCHANGED <<stage, files, fvars, kvars, dvars, rvars>>
       /\ pc \in {"failed", "returned"} => UNCHANGED vars
       /\ success' = "True" =>
             /\ stage' = "report"
             /\ error' = "none"
             /\ \A s \in {"process", "forecast", "kpi", "report"} : LastOutput(s) \subseteq files'
             /\ report_data' # <<>> /\ summary' # <<>>
      ]_vars

\* a run with data generation that returned True, and one of its stages had
\* work to do in every stage
StagesRunInOrderWitness ==
    /\ success = "True"
    /\ ~skip_data_generation
    /\ stage = "report"
    /\ forecasts_df # <<>>
    /\ alerts # <<>>
    /\ {"data_summary.txt", "revenue_forecasts.csv", "kpi_summary.txt", "report_index.md"}
           \subseteq files

(***************************************************************************)
(* Properties of the units the two forecasters return                      *)
(***************************************************************************)
\* the units of the feature table with at least MIN_HISTORICAL_PERIODS rows
UnitsWithHistory ==
    {unit \in {df_features[i].business_unit : i \in 1..Len(df_features)} :
        Cardinality({i \in 1..Len(df_features) : df_features[i].business_unit = unit})
            >= MIN_HISTORICAL_PERIODS}

\* C29: when neither forecaster has raised, the linear and the seasonal results
\* are of the same units, the units with at least 24 rows, one result each, and
\* the forecast table made from them has rows of every one of these units.
SameUnitsForecast ==
    /\ AfterSeasonal =>
          /\ Keys(linear_results) = UnitsWithHistory
          /\ Keys(seasonal_results) = UnitsWithHistory
          /\ Len(linear_results) = Cardinality(UnitsWithHistory)
          /\ Len(seasonal_results) = Cardinality(UnitsWithHistory)
    /\ AfterSummary =>
          {forecasts_df[i].business_unit : i \in 1..Len(forecasts_df)} = UnitsWithHistory

\* two units in the table, one of them a row short of the minimum history: the
\* other one alone has results, and rows in the forecast table
SameUnitsForecastWitness ==
    /\ AfterSummary
    /\ Cardinality({df_features[i].business_unit : i \in 1..Len(df_features)}) = 2
    /\ Cardinality(UnitsWithHistory) = 1
    /\ Keys(linear_results) = UnitsWithHistory
    /\ forecasts_df # <<>>

(***************************************************************************)
(* Properties of process_all_data without one of its input files           *)
(***************************************************************************)
RawInputMissing == ~({"revenue_data.csv", "kpi_data.csv"} \subseteq files)

\* C30: when revenue_data.csv or kpi_data.csv is not there, process_all_data
\* raises FileNotFoundError at the load of the missing file, and no step of it
\* creates or changes processed_revenue.csv, aggregated_revenue.csv,
\* processed_kpi.csv or data_summary.txt.
MissingInputWritesNothing ==
    [][RawInputMissing =>
          /\ files' = files
          /\ processed_revenue' = processed_revenue
          /\ processed_kpi' = processed_kpi
          /\ pc' \in {"dp_revenue", "raised"}
          /\ pc' = "dp_revenue" => pc = "dp_start" /\ "revenue_data.csv" \in files
          /\ pc' = "raised" => error' = "FileNotFoundError"
      ]_vars

\* the revenue file was read, the KPI file is not there: the run has raised and
\* the outputs of an earlier run are as they were
MissingInputWritesNothingWitness ==
    /\ pc = "raised"
    /\ error = "FileNotFoundError"
    /\ "kpi_data.csv" \notin files
    /\ dp_revenue_df # <<>>
    /\ DataOutputs \subseteq files
    /\ processed_revenue = EarlierProcessedRevenue
    /\ processed_kpi = <<Unhealthy(10)>>

====
